---- MODULE Spec2Model ----
(***************************************************************************)
(* A model of the streaming response pipeline of the chat application:     *)
(*   - ThinkingFilter            (chatapp/app/agentcore/client.py)         *)
(*   - AgentCoreClient.invoke_stream (chatapp/app/agentcore/client.py)     *)
(*   - _stream_chat_response     (chatapp/app/routes/chat.py)              *)
(* Text is modelled by TLA+ strings; the regular expressions of the filter *)
(* are modelled by scanning operators with the leftmost / lazy / greedy    *)
(* semantics of Python's re module.  The text alphabet of the model has no *)
(* newline, so "$" is the end of the string.                               *)
(***************************************************************************)
EXTENDS Integers, Sequences, FiniteSets, TLC

\* ------------------------------------------------------------------------
\* Bounds of the model
\* ------------------------------------------------------------------------
\* number of segments (plain text or markup block) of a filter input
MaxSegs == 2
\* longest piece fed to the filter in one call, unless the call feeds all that is left
MaxChunk == 3
\* number of lines of an upstream response
MaxLines == 3
\* longest chunk read from the upstream, unless the read takes all that is left
MaxRead == 2
\* number of values id(data) is drawn from
MaxAddr == 2
\* lines per upstream response in the runs over the line shapes
MaxShapeLines == 2
\* bytes per upstream response in the decoder runs
MaxBytes == 4
\* lines per upstream response in the runs with storage tasks
MaxStorageLines == 2
\* chat requests in progress at the same time, and lines per response there
MaxRequests == 2
MaxRequestLines == 2
\* calls made on the session manager for one request
MaxSessionCalls == 2
\* events the agent's stream yields in one invocation
MaxAgentEvents == 2

\* usage.py line 54, guardrail.py line 54: retries={"max_attempts": 3, ...},
\* the retries the storage client makes after the first sending of a write
MaxRetries == 3

\* ------------------------------------------------------------------------
\* String helpers
\* ------------------------------------------------------------------------
\* s[from..] (1-based), "" when from is past the end
From(s, from) == SubSeq(s, from, Len(s))

\* Python's str.startswith
StartsWith(s, p) == Len(p) <= Len(s) /\ SubSeq(s, 1, Len(p)) = p

\* TRUE when pat occurs in s at position i
MatchAt(s, pat, i) ==
    i + Len(pat) - 1 <= Len(s) /\ SubSeq(s, i, i + Len(pat) - 1) = pat

\* least i >= from where pat occurs in s, 0 when there is none
IndexOf(s, pat, from) ==
    LET at == {i \in from..(Len(s) - Len(pat) + 1) : SubSeq(s, i, i + Len(pat) - 1) = pat}
    IN  IF at = {} THEN 0 ELSE CHOOSE i \in at : \A j \in at : i <= j

\* TRUE when character c occurs in s at or after position from
HasCharFrom(s, c, from) == IndexOf(s, c, from) # 0

\* ------------------------------------------------------------------------
\* The regular expressions of ThinkingFilter.filter
\* ------------------------------------------------------------------------
\* re.sub(r'OPEN[\s\S]*?CLOSE', '', s) for literal OPEN and CLOSE: every
\* leftmost, shortest OPEN ... CLOSE span is removed
RECURSIVE RemoveBlocks(_, _, _)
RemoveBlocks(s, open, close) ==
    LET i == IndexOf(s, open, 1)
        c == IF i = 0 THEN 0 ELSE IndexOf(s, close, i + Len(open))
    IN  IF c = 0 THEN s
        ELSE SubSeq(s, 1, i - 1) \o RemoveBlocks(From(s, c + Len(close)), open, close)

\* re.sub(r'PFX[^>]*>[\s\S]*?CLOSE', '', s): the tag runs to the first ">",
\* the body to the first CLOSE after it
RECURSIVE RemoveTagged(_, _, _)
RemoveTagged(s, pfx, close) ==
    LET i == IndexOf(s, pfx, 1)
        g == IF i = 0 THEN 0 ELSE IndexOf(s, ">", i + Len(pfx))
        c == IF g = 0 THEN 0 ELSE IndexOf(s, close, g + 1)
    IN  IF c = 0 THEN s
        ELSE SubSeq(s, 1, i - 1) \o RemoveTagged(From(s, c + Len(close)), pfx, close)

\* re.sub(r'PFX[^>]*>[^<]*$', '', s): the leftmost complete tag after whose
\* ">" no "<" follows is cut with everything behind it
RECURSIVE CutTagNoLt(_, _, _)
CutTagNoLt(s, pfx, from) ==
    LET i == IndexOf(s, pfx, from)
        g == IF i = 0 THEN 0 ELSE IndexOf(s, ">", i + Len(pfx))
    IN  IF g = 0 THEN s
        ELSE IF ~HasCharFrom(s, "<", g + 1) THEN SubSeq(s, 1, i - 1)
        ELSE CutTagNoLt(s, pfx, i + 1)

\* re.sub(r'PFX[^>]*$', '', s): the leftmost PFX that no ">" follows is cut
\* with everything behind it
RECURSIVE CutOpenTag(_, _, _)
CutOpenTag(s, pfx, from) ==
    LET i == IndexOf(s, pfx, from)
    IN  IF i = 0 THEN s
        ELSE IF ~HasCharFrom(s, ">", i + Len(pfx)) THEN SubSeq(s, 1, i - 1)
        ELSE CutOpenTag(s, pfx, i + 1)

\* re.sub(r'PFX[^>]*>$', '', s): a complete tag that ends the string is cut
RECURSIVE CutTagAtEnd(_, _, _)
CutTagAtEnd(s, pfx, from) ==
    LET i == IndexOf(s, pfx, from)
        g == IF i = 0 THEN 0 ELSE IndexOf(s, ">", i + Len(pfx))
    IN  IF g = 0 THEN s
        ELSE IF g = Len(s) THEN SubSeq(s, 1, i - 1)
        ELSE CutTagAtEnd(s, pfx, i + 1)

\* re.sub(LIT, '', s) for a literal
RECURSIVE RemoveAll(_, _)
RemoveAll(s, lit) ==
    LET i == IndexOf(s, lit, 1)
    IN  IF i = 0 THEN s
        ELSE SubSeq(s, 1, i - 1) \o RemoveAll(From(s, i + Len(lit)), lit)

\* re.search(r'<thinking>[\s\S]*$', s): start of the match, 0 for no match
OpenTagStart(s) == IndexOf(s, "<thinking>", 1)

\* re.search(r'<[^>]*$', s): start of the match, 0 for no match
RECURSIVE PartialTagStart(_, _)
PartialTagStart(s, from) ==
    LET i == IndexOf(s, "<", from)
    IN  IF i = 0 THEN 0
        ELSE IF ~HasCharFrom(s, ">", i + 1) THEN i
        ELSE PartialTagStart(s, i + 1)

\* lines 78-82: an unclosed <thinking> is cut with everything behind it
CutOpenThinking(s) ==
    LET i == OpenTagStart(s)
    IN  IF i # 0 THEN SubSeq(s, 1, i - 1) ELSE s

\* lines 84-90: a trailing "<..." is cut when '<thinking>'.startswith(it)
CutPartialTag(s) ==
    LET i == PartialTagStart(s, 1)
    IN  IF i # 0 /\ StartsWith("<thinking>", From(s, i))
        THEN SubSeq(s, 1, i - 1) ELSE s

\* lines 53-90 of filter(): the filtered string of the accumulated content
Filtered(content) ==
    LET f1  == RemoveBlocks(content, "<thinking>", "</thinking>")
        f2  == RemoveTagged(f1, "<__function=", "</__function>")
        f3  == RemoveTagged(f2, "<__function=", "</")
        f4  == CutTagNoLt(f3, "<__function=", 1)
        f5  == CutOpenTag(f4, "<__function=", 1)
        f6  == RemoveTagged(f5, "<function=", "</function>")
        f7  == CutTagNoLt(f6, "<function=", 1)
        f8  == RemoveTagged(f7, "<__parameter=", "</__parameter>")
        f9  == CutTagNoLt(f8, "<__parameter=", 1)
        f10 == CutTagAtEnd(f9, "<__parameter=", 1)
        f11 == RemoveAll(f10, "</__parameter>")
        f12 == CutOpenThinking(f11)
    IN  CutPartialTag(f12)

\* ------------------------------------------------------------------------
\* ThinkingFilter._extract_tool_calls
\* ------------------------------------------------------------------------
\* re.findall(r'<__function=([^>]+)>([\s\S]*?)</__function>', s): the
\* (tool_name, params_block) pairs of the complete blocks, left to right
RECURSIVE FunctionBlocks(_, _)
FunctionBlocks(s, from) ==
    LET i == IndexOf(s, "<__function=", from)
        n == i + Len("<__function=")
        g == IF i = 0 THEN 0 ELSE IndexOf(s, ">", n)
        c == IF g = 0 THEN 0 ELSE IndexOf(s, "</__function>", g + 1)
    IN  IF g = 0 THEN <<>>
        ELSE IF g = n THEN FunctionBlocks(s, i + 1)
        ELSE IF c = 0 THEN <<>>
        ELSE <<[tool_name |-> SubSeq(s, n, g - 1),
                params_block |-> SubSeq(s, g + 1, c - 1)]>>
             \o FunctionBlocks(s, c + Len("</__function>"))

\* re.findall(r'<__parameter=([^>]+)>([^<]*)</__parameter>', s): the
\* <<name, value>> pairs, left to right
RECURSIVE ParamMatches(_, _)
ParamMatches(s, from) ==
    LET i == IndexOf(s, "<__parameter=", from)
        n == i + Len("<__parameter=")
        g == IF i = 0 THEN 0 ELSE IndexOf(s, ">", n)
        l == IF g = 0 THEN 0 ELSE IndexOf(s, "<", g + 1)
    IN  IF g = 0 THEN <<>>
        ELSE IF g = n \/ l = 0 \/ ~MatchAt(s, "</__parameter>", l)
             THEN ParamMatches(s, i + 1)
        ELSE <<[name |-> SubSeq(s, n, g - 1), value |-> SubSeq(s, g + 1, l - 1)]>>
             \o ParamMatches(s, l + Len("</__parameter>"))

\* str.strip() for blanks, on the left (all that startswith looks at)
RECURSIVE LStrip(_)
LStrip(s) == IF Len(s) > 0 /\ SubSeq(s, 1, 1) = " " THEN LStrip(Tail(s)) ELSE s

\* lines 126-132: a value that looks like JSON goes through json.loads (the
\* decoded value, or the raw text when it does not parse); any other value
\* is kept as raw text
DecodeParam(value) ==
    LET v == LStrip(value)
    IN  IF StartsWith(v, "{") \/ StartsWith(v, "[") \/ StartsWith(v, "\"")
        THEN [kind |-> "json", raw |-> value]
        ELSE [kind |-> "text", raw |-> value]

\* tool_input[param_name] = ... on a dict kept as a sequence of items in
\* insertion order: an existing key keeps its place and takes the new value
DictPut(d, k, v) ==
    IF \E j \in 1..Len(d) : d[j].key = k
    THEN [j \in 1..Len(d) |-> IF d[j].key = k THEN [key |-> k, val |-> v] ELSE d[j]]
    ELSE Append(d, [key |-> k, val |-> v])

\* lines 119-132: the tool_input dict of one params_block
RECURSIVE ToolInputOf(_, _)
ToolInputOf(pairs, d) ==
    IF pairs = <<>> THEN d
    ELSE ToolInputOf(Tail(pairs),
                     DictPut(d, Head(pairs).name, DecodeParam(Head(pairs).value)))

\* the characters the hash stand-in knows, by position
Alphabet == "abcdefghijklmnopqrstuvwxyzABCDEFGHIJKLMNOPQRSTUVWXYZ0123456789<>/=_ -"

CharCode(c) == IndexOf(Alphabet, c, 1)

\* hash(params_block) & 0xFFFFFFFF: Python's string hash is a salted SipHash,
\* fixed within one process; the model uses a position-weighted character
\* sum, which like it is a function of the text alone and may collide.  Its
\* values stay below 2^31, so the mask leaves them as they are.
RECURSIVE HashSum(_, _, _)
HashSum(s, lo, hi) ==
    IF lo > hi THEN 0
    ELSE IF lo = hi THEN CharCode(SubSeq(s, lo, lo)) * (31 + lo)
    ELSE LET mid == (lo + hi) \div 2
         IN  HashSum(s, lo, mid) + HashSum(s, mid + 1, hi)

Hash32(s) == HashSum(s, 1, Len(s))

\* line 112: f"nova-{tool_name}-{hash(params_block) & 0xFFFFFFFF}"
ToolId(tool_name, params_block) ==
    "nova-" \o tool_name \o "-" \o ToString(Hash32(params_block))

\* the loop of lines 110-138 without the check of line 114: every match is
\* queued again on every call (the behaviour C4 excludes)
RECURSIVE ExtractLoopNoSeen(_, _, _)
ExtractLoopNoSeen(matches, seen, queue) ==
    IF matches = <<>> THEN [seen |-> seen, queue |-> queue]
    ELSE LET m   == Head(matches)
             tid == ToolId(m.tool_name, m.params_block)
         IN  ExtractLoopNoSeen(Tail(matches), seen \cup {tid},
                 Append(queue,
                        [tool_name   |-> m.tool_name,
                         tool_input  |-> ToolInputOf(ParamMatches(m.params_block, 1), <<>>),
                         tool_use_id |-> tid]))

\* lines 110-138: the loop over the matches, on the pair (seen ids, queue)
RECURSIVE ExtractLoop(_, _, _)
ExtractLoop(matches, seen, queue) ==
    IF matches = <<>> THEN [seen |-> seen, queue |-> queue]
    ELSE LET m   == Head(matches)
             tid == ToolId(m.tool_name, m.params_block)
         IN  IF tid \in seen
             THEN ExtractLoop(Tail(matches), seen, queue)
             ELSE ExtractLoop(Tail(matches), seen \cup {tid},
                      Append(queue,
                             [tool_name   |-> m.tool_name,
                              tool_input  |-> ToolInputOf(ParamMatches(m.params_block, 1), <<>>),
                              tool_use_id |-> tid]))

\* line 54 handing _extract_tool_calls the text with the reasoning blocks
\* taken out (the behaviour C29 excludes)
ExtractToolCallsVisible(content, seen, queue) ==
    ExtractLoop(FunctionBlocks(RemoveBlocks(content, "<thinking>", "</thinking>"), 1),
                seen, queue)

\* _extract_tool_calls(content) on the filter's _seen_tool_ids and _extracted_tools
ExtractToolCalls(content, seen, queue) ==
    ExtractLoop(FunctionBlocks(content, 1), seen, queue)

\* lines 92-98 with the cursor following the filtered string down as well as
\* up (the behaviour C5 excludes)
NewContentRewind(filtered, sent) ==
    IF Len(filtered) > sent
    THEN [none |-> FALSE, text |-> SubSeq(filtered, sent + 1, Len(filtered)),
          sent |-> Len(filtered)]
    ELSE [none |-> TRUE, text |-> "", sent |-> Len(filtered)]

\* lines 92-98: the return value and the new cursor of filter()
NewContent(filtered, sent) ==
    IF Len(filtered) > sent
    THEN [none |-> FALSE, text |-> SubSeq(filtered, sent + 1, Len(filtered)),
          sent |-> Len(filtered)]
    ELSE [none |-> TRUE, text |-> "", sent |-> sent]

\* ThinkingFilter.__init__
NewFilter ==
    [full_content |-> "", sent_length |-> 0, extracted_tools |-> <<>>, seen_tool_ids |-> {}]

\* ThinkingFilter.filter(text) on the filter object f: the new object and the
\* value returned (none: the call returned None).  The filtered string and
\* the extraction are bound through one-element sets, so each is computed once.
FilterCall(f, text) ==
    LET content == f.full_content \o text
    IN  CHOOSE c \in
          {[f   |-> [full_content    |-> content,
                     sent_length     |-> r.sent,
                     extracted_tools |-> ex.queue,
                     seen_tool_ids   |-> ex.seen],
            ret |-> [none |-> r.none, text |-> r.text]] :
           r  \in {NewContent(filtered, f.sent_length) : filtered \in {Filtered(content)}},
           ex \in {ExtractToolCalls(content, f.seen_tool_ids, f.extracted_tools)}} : TRUE

\* ThinkingFilter.get_extracted_tools() on f: the list returned and the new object
GetTools(f) ==
    [tools |-> f.extracted_tools, f |-> [f EXCEPT !.extracted_tools = <<>>]]

\* ------------------------------------------------------------------------
\* JSON values and the event dataclasses (chatapp/app/models/events.py)
\* ------------------------------------------------------------------------
\* A JSON value is a tagged record: t is its Python type, v its value.
\* "absent" marks a key that the object does not hold.
None    == [t |-> "none", v |-> ""]
Absent  == [t |-> "absent", v |-> ""]
Str(s)  == [t |-> "str", v |-> s]
Num(n)  == [t |-> "num", v |-> n]
Bool(b) == [t |-> "bool", v |-> b]
List(s) == [t |-> "list", v |-> s]
Dict(d) == [t |-> "dict", v |-> d]

\* Python's truth value of a JSON value
Truthy(x) ==
    CASE x.t = "str"  -> x.v # ""
      [] x.t = "num"  -> x.v # 0
      [] x.t = "bool" -> x.v
      [] x.t = "list" -> Len(x.v) > 0
      [] x.t = "dict" -> DOMAIN x.v # {}
      [] OTHER        -> FALSE

\* lists and dicts cannot be dict keys
Hashable(x) == x.t \notin {"list", "dict"}

\* dict.get(key) and dict.get(key, default) on the value found under the key
Get(x) == IF x.t = "absent" THEN None ELSE x
GetOr(x, default) == IF x.t = "absent" THEN default ELSE x

\* Python's  a or b
Or(a, b) == IF Truthy(a) THEN a ELSE b

\* the fields of the event dataclasses; a field an event does not have is None
NoFields ==
    [type |-> None, content |-> None, tool_name |-> None, tool_input |-> None,
     tool_use_id |-> None, status |-> None, tool_result |-> None, message |-> None,
     details |-> None, data |-> None, source |-> None, action |-> None,
     assessments |-> None]

MessageEvent(content) ==
    [NoFields EXCEPT !.type = Str("message"), !.content = content]

ToolUseEvent(tool_name, tool_input, tool_use_id, status) ==
    [NoFields EXCEPT !.type = Str("tool_use"), !.tool_name = tool_name,
                     !.tool_input = tool_input, !.tool_use_id = tool_use_id,
                     !.status = status]

ToolResultEvent(tool_name, tool_result, tool_use_id, status) ==
    [NoFields EXCEPT !.type = Str("tool_result"), !.tool_name = tool_name,
                     !.tool_result = tool_result, !.tool_use_id = tool_use_id,
                     !.status = status]

ErrorEvent(message, details) ==
    [NoFields EXCEPT !.type = Str("error"), !.message = message, !.details = details]

MetadataEvent(data) ==
    [NoFields EXCEPT !.type = Str("metadata"), !.data = data]

DoneEvent == [NoFields EXCEPT !.type = Str("done")]

GuardrailEvent(source, action, assessments) ==
    [NoFields EXCEPT !.type = Str("guardrail"), !.source = source,
                     !.action = action, !.assessments = assessments]

\* isinstance(event, ...): the class of an event is its type field
IsA(event, type) == event.type = Str(type)

\* SSEEvent.to_dict: the fields that are not None
ToDict(event) == [k \in {k \in DOMAIN event : event[k].t # "none"} |-> event[k]]

\* SSEEvent.to_sse_format: f"data: {json.dumps(self.to_dict())}\n\n"
ToSseFormat(event) == [prefix |-> "data: ", json |-> ToDict(event), suffix |-> "\n\n"]

\* ------------------------------------------------------------------------
\* AgentCoreClient._parse_ndjson_line
\* ------------------------------------------------------------------------
\* The keys _parse_ndjson_line looks at.  delta_text stands for the path
\* event.contentBlockDelta.delta.text, metadata for event.metadata and
\* message_content for message.content; message is the value under "message"
\* when it is not an object.  error is a key the code does not look at: the
\* agent sets it on the line it sends when it fails.
DataKeys ==
    {"delta_text", "type", "text", "tool_name", "name", "tool_input", "input",
     "tool_use_id", "id", "status", "tool_result", "result", "source", "action",
     "assessments", "content", "message_content", "usage", "metrics", "metadata",
     "message", "error"}

NoKeys == [k \in DataKeys |-> Absent]

\* d.get(k) and d.get(k, default) on a JSON dict
DGet(x, k) == IF k \in DOMAIN x.v THEN x.v[k] ELSE None
DGetOr(x, k, default) == IF k \in DOMAIN x.v THEN x.v[k] ELSE default

\* content lists of the lines of the model:
\* [{"toolUse":{"name":"calc","toolUseId":"a"}}],
\* [{"toolResult":{"toolUseId":"a","content":"42"}}] and [{"text":"ok"}]
ToolUseBlocks ==
    List(<<Dict([toolUse |-> Dict([name |-> Str("calc"), toolUseId |-> Str("a")])])>>)
ToolResultBlocks ==
    List(<<Dict([toolResult |-> Dict([toolUseId |-> Str("a"), content |-> Str("42")])])>>)
TextBlocks == List(<<Dict([text |-> Str("ok")])>>)

\* json.loads on the lines of the model: a line of the upstream is a
\* one-character code standing for the JSON text given beside it.  Any other
\* text is not JSON (JSONDecodeError).
JsonLoads(json_str) ==
    CASE json_str = "t" ->  \* {"event":{"contentBlockDelta":{"delta":{"text":"ok"}}}}
            [json |-> "object", d |-> [NoKeys EXCEPT !.delta_text = Str("ok")]]
      [] json_str = "n" ->  \* {"type":"TextStreamEvent","text":"<__function=f>x</__function>"}
            [json |-> "object",
             d |-> [NoKeys EXCEPT !.type = Str("TextStreamEvent"),
                                  !.text = Str("<__function=f>x</__function>")]]
      [] json_str = "u" ->  \* {"type":"tool_use","tool_name":"calc","tool_use_id":"a"}
            [json |-> "object",
             d |-> [NoKeys EXCEPT !.type = Str("tool_use"), !.tool_name = Str("calc"),
                                  !.tool_use_id = Str("a")]]
      [] json_str = "w" ->  \* {"type":"tool_use","name":"web","id":"b"}
            [json |-> "object",
             d |-> [NoKeys EXCEPT !.type = Str("tool_use"), !.name = Str("web"),
                                  !.id = Str("b")]]
      [] json_str = "r" ->  \* {"type":"tool_result","tool_name":"calc","tool_use_id":"a","tool_result":"42"}
            [json |-> "object",
             d |-> [NoKeys EXCEPT !.type = Str("tool_result"), !.tool_name = Str("calc"),
                                  !.tool_use_id = Str("a"), !.tool_result = Str("42")]]
      [] json_str = "e" ->  \* {"type":"tool_result","name":"web","id":"b","status":"error","result":"x"}
            [json |-> "object",
             d |-> [NoKeys EXCEPT !.type = Str("tool_result"), !.name = Str("web"),
                                  !.id = Str("b"), !.status = Str("error"),
                                  !.result = Str("x")]]
      [] json_str = "s" ->  \* {"type":"tool_result","tool_use_id":"a","status":500}
            [json |-> "object",
             d |-> [NoKeys EXCEPT !.type = Str("tool_result"), !.tool_use_id = Str("a"),
                                  !.status = Num(500)]]
      [] json_str = "l" ->  \* {"type":"tool_use","tool_name":["calc"],"tool_use_id":"c"}
            [json |-> "object",
             d |-> [NoKeys EXCEPT !.type = Str("tool_use"),
                                  !.tool_name = List(<<Str("calc")>>),
                                  !.tool_use_id = Str("c")]]
      [] json_str = "m" ->  \* {"usage":{"inputTokens":3,"outputTokens":4,"totalTokens":7},"metrics":{"latencyMs":9}}
            [json |-> "object",
             d |-> [NoKeys EXCEPT
                      !.usage = Dict([inputTokens |-> Num(3), outputTokens |-> Num(4),
                                      totalTokens |-> Num(7)]),
                      !.metrics = Dict([latencyMs |-> Num(9)])]]
      [] json_str = "g" ->  \* {"type":"guardrail","source":"OUTPUT","action":"GUARDRAIL_INTERVENED","assessments":[]}
            [json |-> "object",
             d |-> [NoKeys EXCEPT !.type = Str("guardrail"), !.source = Str("OUTPUT"),
                                  !.action = Str("GUARDRAIL_INTERVENED"),
                                  !.assessments = List(<<>>)]]
      [] json_str = "T" ->  \* {"type":"TextStreamEvent","text":"ok"}
            [json |-> "object",
             d |-> [NoKeys EXCEPT !.type = Str("TextStreamEvent"), !.text = Str("ok")]]
      [] json_str = "h" ->  \* {"event":{"contentBlockDelta":{"delta":{"text":"<thinking>r</thinking>"}}}}
            [json |-> "object",
             d |-> [NoKeys EXCEPT !.delta_text = Str("<thinking>r</thinking>")]]
      [] json_str = "c" ->  \* {"content":[{"toolUse":{"name":"calc","toolUseId":"a"}}]}
            [json |-> "object", d |-> [NoKeys EXCEPT !.content = ToolUseBlocks]]
      [] json_str = "d" ->  \* {"content":[{"text":"hi"},{"toolResult":{"toolUseId":"a","content":"42"}}]}
            [json |-> "object",
             d |-> [NoKeys EXCEPT !.content =
                      List(<<Dict([text |-> Str("hi")])>> \o ToolResultBlocks.v)]]
      [] json_str = "f" ->  \* {"message":{"content":[{"text":"ok"}]}}
            [json |-> "object", d |-> [NoKeys EXCEPT !.message_content = TextBlocks]]
      [] json_str = "y" ->  \* {"type":"message","content":[{"text":"ok"}]}
            [json |-> "object",
             d |-> [NoKeys EXCEPT !.type = Str("message"), !.content = TextBlocks]]
      [] json_str = "v" ->  \* {"event":{"metadata":{"usage":{"inputTokens":5,"outputTokens":6},"metrics":{"latencyMs":8}}}}
            [json |-> "object",
             d |-> [NoKeys EXCEPT !.metadata = Dict(
                      [usage   |-> Dict([inputTokens |-> Num(5), outputTokens |-> Num(6)]),
                       metrics |-> Dict([latencyMs |-> Num(8)])])]]
      [] json_str = "A" ->  \* "t" and "u" in one object: delta text "ok", type tool_use
            [json |-> "object",
             d |-> [NoKeys EXCEPT !.delta_text = Str("ok"), !.type = Str("tool_use"),
                                  !.tool_name = Str("calc"), !.tool_use_id = Str("a")]]
      [] json_str = "J" ->  \* delta text "ok", and {"type":"TextStreamEvent","text":"Hi"}
            [json |-> "object",
             d |-> [NoKeys EXCEPT !.delta_text = Str("ok"),
                                  !.type = Str("TextStreamEvent"), !.text = Str("Hi")]]
      [] json_str = "B" ->  \* {"type":"TextStreamEvent","text":"ok","usage":{"inputTokens":3}}
            [json |-> "object",
             d |-> [NoKeys EXCEPT !.type = Str("TextStreamEvent"), !.text = Str("ok"),
                                  !.usage = Dict([inputTokens |-> Num(3)])]]
      [] json_str = "C" ->  \* "u" with "content":[{"toolResult":{"toolUseId":"a","content":"42"}}]
            [json |-> "object",
             d |-> [NoKeys EXCEPT !.type = Str("tool_use"), !.tool_name = Str("calc"),
                                  !.tool_use_id = Str("a"), !.content = ToolResultBlocks]]
      [] json_str = "D" ->  \* {"type":"tool_result","tool_use_id":"a","tool_result":"42","usage":{"inputTokens":3}}
            [json |-> "object",
             d |-> [NoKeys EXCEPT !.type = Str("tool_result"), !.tool_use_id = Str("a"),
                                  !.tool_result = Str("42"),
                                  !.usage = Dict([inputTokens |-> Num(3)])]]
      [] json_str = "E" ->  \* {"type":"guardrail","action":"NONE","content":[{"toolUse":{...}}]}
            [json |-> "object",
             d |-> [NoKeys EXCEPT !.type = Str("guardrail"), !.action = Str("NONE"),
                                  !.content = ToolUseBlocks]]
      [] json_str = "F" ->  \* {"content":[{"toolUse":{...}}],"message":{"content":[{"text":"ok"}]}}
            [json |-> "object",
             d |-> [NoKeys EXCEPT !.content = ToolUseBlocks, !.message_content = TextBlocks]]
      [] json_str = "G" ->  \* {"type":"message","content":[{"text":"ok"}],"message":{"content":[{"text":"ok"}]}}
            [json |-> "object",
             d |-> [NoKeys EXCEPT !.type = Str("message"), !.content = TextBlocks,
                                  !.message_content = TextBlocks]]
      [] json_str = "H" ->  \* {"type":"message","content":[{"text":"ok"}],"usage":{"inputTokens":3}}
            [json |-> "object",
             d |-> [NoKeys EXCEPT !.type = Str("message"), !.content = TextBlocks,
                                  !.usage = Dict([inputTokens |-> Num(3)])]]
      [] json_str = "I" ->  \* {"usage":{"inputTokens":3},"event":{"metadata":{"usage":{"inputTokens":5}}}}
            [json |-> "object",
             d |-> [NoKeys EXCEPT !.usage = Dict([inputTokens |-> Num(3)]),
                                  !.metadata = Dict([usage |-> Dict([inputTokens |-> Num(5)])])]]
      [] json_str = "o" ->  \* {"foo":1}: an object with none of the keys looked at
            [json |-> "object", d |-> NoKeys]
      [] json_str = "b" ->  \* {"content":[5]}: a content block that is not an object
            [json |-> "object", d |-> [NoKeys EXCEPT !.content = List(<<Num(5)>>)]]
      [] json_str = "k" ->  \* {"content":[{"toolUse":{"name":["calc"],"toolUseId":"c"}}]}
            [json |-> "object",
             d |-> [NoKeys EXCEPT !.content = List(<<Dict(
                      [toolUse |-> Dict([name |-> List(<<Str("calc")>>),
                                         toolUseId |-> Str("c")])])>>)]]
      [] json_str = "M" ->  \* {"usage":{"inputTokens":1,"outputTokens":1,"totalTokens":2},"metrics":{"latencyMs":5}}
            [json |-> "object",
             d |-> [NoKeys EXCEPT
                      !.usage = Dict([inputTokens |-> Num(1), outputTokens |-> Num(1),
                                      totalTokens |-> Num(2)]),
                      !.metrics = Dict([latencyMs |-> Num(5)])]]
      [] json_str = "a" ->  \* {"type":"guardrail"}: the action defaults to NONE
            [json |-> "object", d |-> [NoKeys EXCEPT !.type = Str("guardrail")]]
      [] json_str = "p" ->  \* {"type":"tool_use","tool_name":"web","tool_use_id":"a"}
            [json |-> "object",
             d |-> [NoKeys EXCEPT !.type = Str("tool_use"), !.tool_name = Str("web"),
                                  !.tool_use_id = Str("a")]]
      [] json_str = "N" ->  \* {"content":[{"toolUse":{"name":"calc"}}]}: no toolUseId
            [json |-> "object",
             d |-> [NoKeys EXCEPT !.content =
                      List(<<Dict([toolUse |-> Dict([name |-> Str("calc")])])>>)]]
      [] json_str = "R" ->  \* {"content":[{"toolResult":{"content":"42"}}]}: no toolUseId
            [json |-> "object",
             d |-> [NoKeys EXCEPT !.content =
                      List(<<Dict([toolResult |-> Dict([content |-> Str("42")])])>>)]]
      [] json_str = "q" ->  \* {"type":"tool_result","tool_use_id":"z","tool_result":"42"}
            [json |-> "object",
             d |-> [NoKeys EXCEPT !.type = Str("tool_result"), !.tool_use_id = Str("z"),
                                  !.tool_result = Str("42")]]
      [] json_str = "L" ->  \* {"type":"tool_result","tool_use_id":["a"],"tool_result":"42"}
            [json |-> "object",
             d |-> [NoKeys EXCEPT !.type = Str("tool_result"),
                                  !.tool_use_id = List(<<Str("a")>>),
                                  !.tool_result = Str("42")]]
      [] json_str = "Z" ->  \* {"error":true,"message":"boom"}: the agent's error line
            [json |-> "object",
             d |-> [NoKeys EXCEPT !.error = Bool(TRUE), !.message = Str("boom")]]
      [] json_str = "P" ->  \* {"error":true,"message":"boom","usage":{"inputTokens":3}}
            [json |-> "object",
             d |-> [NoKeys EXCEPT !.error = Bool(TRUE), !.message = Str("boom"),
                                  !.usage = Dict([inputTokens |-> Num(3)])]]
      [] json_str = "7" ->  \* 7: JSON, but not an object
            [json |-> "other", d |-> NoKeys]
      [] OTHER ->
            [json |-> "error", d |-> NoKeys]

\* "return None" with the filter left as it is (also the outcome of every
\* exception caught at lines 317-320)
Skip(f) == [events |-> <<>>, f |-> f]

\* "return SomeEvent(...)"
One(event, f) == [events |-> <<event>>, f |-> f]

\* filtered = thinking_filter.filter(text); a MessageEvent if filtered is a
\* non-empty string.  A text that is not a string makes filter() raise
\* before it changes the filter.
FilterText(f, text) ==
    IF text.t # "str" THEN Skip(f)
    ELSE CHOOSE res \in
           {[events |-> IF ~c.ret.none /\ c.ret.text # ""
                        THEN <<MessageEvent(Str(c.ret.text))>> ELSE <<>>,
             f |-> c.f] : c \in {FilterCall(f, text.v)}} : TRUE

EmptyDict == [k \in {} |-> None]

\* lines 258-274: the first block with a toolUse or a toolResult decides;
\* kind is "event", "none" (no such block) or "raise" (an exception)
RECURSIVE ScanBlocks(_)
ScanBlocks(blocks) ==
    IF blocks = <<>> THEN [kind |-> "none", event |-> NoFields]
    ELSE LET block == Head(blocks)
         IN  IF block.t # "dict" THEN [kind |-> "raise", event |-> NoFields]
             ELSE IF Truthy(DGet(block, "toolUse"))
             THEN LET tool_use == block.v.toolUse
                  IN  IF tool_use.t # "dict" \/ "name" \notin DOMAIN tool_use.v
                      THEN [kind |-> "raise", event |-> NoFields]
                      ELSE [kind |-> "event",
                            event |-> ToolUseEvent(tool_use.v.name, DGet(tool_use, "input"),
                                                   DGet(tool_use, "toolUseId"), Str("started"))]
             ELSE IF Truthy(DGet(block, "toolResult"))
             THEN LET tool_result == block.v.toolResult
                  IN  IF tool_result.t # "dict"
                      THEN [kind |-> "raise", event |-> NoFields]
                      ELSE [kind |-> "event",
                            event |-> ToolResultEvent(
                                          DGetOr(tool_result, "name", Str("unknown")),
                                          DGet(tool_result, "content"),
                                          DGet(tool_result, "toolUseId"),
                                          DGetOr(tool_result, "status", Str("completed")))]
             ELSE ScanBlocks(Tail(blocks))

\* lines 282-285: the texts of the blocks joined; ok is FALSE when a text is
\* not a string (the += raises)
RECURSIVE TextOfBlocks(_)
TextOfBlocks(blocks) ==
    IF blocks = <<>> THEN [ok |-> TRUE, text |-> ""]
    ELSE LET text == DGet(Head(blocks), "text")
             rest == TextOfBlocks(Tail(blocks))
         IN  IF ~Truthy(text) THEN rest
             ELSE IF text.t # "str" THEN [ok |-> FALSE, text |-> ""]
             ELSE [ok |-> rest.ok, text |-> text.v \o rest.text]

\* lines 292-315: the two metadata shapes
ParseMetadata(d, f) ==
    LET usage        == GetOr(d.usage, Dict(EmptyDict))
        metrics_data == GetOr(d.metrics, Dict(EmptyDict))
        metadata     == GetOr(d.metadata, Dict(EmptyDict))
    IN  IF Truthy(usage) \/ Truthy(metrics_data)
        THEN IF usage.t # "dict" \/ metrics_data.t # "dict" THEN Skip(f)
             ELSE One(MetadataEvent(Dict(
                        [inputTokens  |-> DGetOr(usage, "inputTokens", Num(0)),
                         outputTokens |-> DGetOr(usage, "outputTokens", Num(0)),
                         totalTokens  |-> DGetOr(usage, "totalTokens", Num(0)),
                         latencyMs    |-> DGetOr(metrics_data, "latencyMs", Num(0))])), f)
        ELSE IF ~Truthy(metadata) THEN Skip(f)
        ELSE IF metadata.t # "dict" THEN Skip(f)
        ELSE LET u == DGetOr(metadata, "usage", Dict(EmptyDict))
                 m == DGetOr(metadata, "metrics", Dict(EmptyDict))
             IN  IF ~(Truthy(u) \/ Truthy(m)) THEN Skip(f)
                 ELSE IF u.t # "dict" \/ m.t # "dict" THEN Skip(f)
                 ELSE One(MetadataEvent(Dict(
                            [inputTokens  |-> DGet(u, "inputTokens"),
                             outputTokens |-> DGet(u, "outputTokens"),
                             latencyMs    |-> DGet(m, "latencyMs")])), f)

\* lines 255-315 with the legacy message (281-290) tried before the final
\* aggregate message is skipped (277-278): another priority order (the
\* behaviour C12 excludes)
ParseNestedLegacyFirst(d, f) ==
    LET content == GetOr(d.content, List(<<>>))
        scan    == IF content.t = "list" THEN ScanBlocks(content.v)
                   ELSE [kind |-> "none", event |-> NoFields]
    IN  IF scan.kind = "raise" THEN Skip(f)
        ELSE IF scan.kind = "event" THEN One(scan.event, f)
        ELSE IF Get(d.type) = Str("message") /\ content.t = "list"
        THEN LET tc == TextOfBlocks(content.v)
             IN  IF ~tc.ok \/ tc.text = "" THEN Skip(f)
                 ELSE FilterText(f, Str(tc.text))
        ELSE IF d.message.t # "absent" THEN Skip(f)
        ELSE IF Truthy(Get(d.message_content)) THEN Skip(f)
        ELSE ParseMetadata(d, f)

\* lines 255-315: the shapes tried after the flat ones.  A "message" that is
\* not an object makes line 277 raise (.get on it), which line 319 catches.
ParseNested(d, f) ==
    LET content == GetOr(d.content, List(<<>>))
        scan    == IF content.t = "list" THEN ScanBlocks(content.v)
                   ELSE [kind |-> "none", event |-> NoFields]
    IN  IF scan.kind = "raise" THEN Skip(f)
        ELSE IF scan.kind = "event" THEN One(scan.event, f)
        ELSE IF d.message.t # "absent" THEN Skip(f)
        ELSE IF Truthy(Get(d.message_content)) THEN Skip(f)
        ELSE IF Get(d.type) = Str("message") /\ content.t = "list"
        THEN LET tc == TextOfBlocks(content.v)
             IN  IF ~tc.ok \/ tc.text = "" THEN Skip(f)
                 ELSE FilterText(f, Str(tc.text))
        ELSE ParseMetadata(d, f)

\* lines 213-253: the flat shapes, in the order the code tries them.  addr
\* is id(data), which names a tool event that carries no id of its own.
ParseData(d, f, addr) ==
    IF Truthy(Get(d.delta_text)) THEN FilterText(f, d.delta_text)
    ELSE IF Get(d.type) = Str("TextStreamEvent") /\ Truthy(Get(d.text))
    THEN FilterText(f, d.text)
    ELSE IF Get(d.type) = Str("tool_use")
    THEN One(ToolUseEvent(
                 Or(Get(d.tool_name), Or(Get(d.name), Str("unknown"))),
                 Or(Get(d.tool_input), Get(d.input)),
                 Or(Get(d.tool_use_id), Or(Get(d.id), Str("tool-" \o ToString(addr)))),
                 GetOr(d.status, Str("started"))), f)
    ELSE IF Get(d.type) = Str("tool_result")
    THEN One(ToolResultEvent(
                 Or(Get(d.tool_name), Or(Get(d.name), Str("unknown"))),
                 Or(Get(d.tool_result), Get(d.result)),
                 Or(Get(d.tool_use_id), Or(Get(d.id), Str("tool-" \o ToString(addr)))),
                 GetOr(d.status, Str("completed"))), f)
    ELSE IF Get(d.type) = Str("guardrail")
    THEN One(GuardrailEvent(GetOr(d.source, Str("INPUT")), GetOr(d.action, Str("NONE")),
                            GetOr(d.assessments, List(<<>>))), f)
    ELSE ParseNested(d, f)

\* str.strip() leaves nothing
IsBlank(line) == \A i \in 1..Len(line) : SubSeq(line, i, i) = " "

\* _parse_ndjson_line returning an ErrorEvent for a line that carries a true
\* "error" (the behaviour C30 excludes)
ParseLineErrorAware(line, f, addr) ==
    IF IsBlank(line) THEN Skip(f)
    ELSE LET json_str == IF StartsWith(line, "data: ") THEN From(line, 7) ELSE line
             parsed   == JsonLoads(json_str)
         IN  IF parsed.json # "object" THEN Skip(f)
             ELSE IF Truthy(Get(parsed.d.error))
             THEN One(ErrorEvent(Get(parsed.d.message), None), f)
             ELSE ParseData(parsed.d, f, addr)

\* _parse_ndjson_line(line, thinking_filter): the event returned (none or
\* one) and the filter after the call
ParseLine(line, f, addr) ==
    IF IsBlank(line) THEN Skip(f)
    ELSE LET json_str == IF StartsWith(line, "data: ") THEN From(line, 7) ELSE line
             parsed   == JsonLoads(json_str)
         IN  IF parsed.json # "object" THEN Skip(f)
             ELSE ParseData(parsed.d, f, addr)

\* ------------------------------------------------------------------------
\* AgentCoreClient.invoke_stream: pure parts
\* ------------------------------------------------------------------------
\* buffer.split('\n'): the pieces between the newlines, the last one being
\* what follows the last newline
RECURSIVE Split(_)
Split(s) ==
    LET i == IndexOf(s, "\n", 1)
    IN  IF i = 0 THEN <<s>>
        ELSE <<SubSeq(s, 1, i - 1)>> \o Split(From(s, i + 1))

\* lines 426-432 and 446-452: a ToolUseEvent for each extracted tool
RECURSIVE ToolEvents(_)
ToolEvents(tools) ==
    IF tools = <<>> THEN <<>>
    ELSE <<ToolUseEvent(Str(Head(tools).tool_name), Dict(Head(tools).tool_input),
                        Str(Head(tools).tool_use_id), Str("started"))>>
         \o ToolEvents(Tail(tools))

\* lines 421-432 (and 441-452): one non-blank line is parsed, its event is
\* yielded, then the tools the filter extracted are drained and yielded
LineEvents(line, f, addr) ==
    CHOOSE res \in
      {[event  |-> p.events,
        events |-> p.events \o ToolEvents(GetTools(p.f).tools),
        f      |-> GetTools(p.f).f] :
       p \in {ParseLine(line, f, addr)}} : TRUE

\* the exceptions the upstream transport raises: the three service
\* exceptions named at lines 457-471, and any other Exception
ExcKinds ==
    {"ValidationException", "ThrottlingException", "InternalServerException", "Exception"}

\* lines 457-471 alone, without the last clause: an exception that is none
\* of the three service exceptions leaves the generator (the behaviour C8
\* excludes)
ExceptHandlerNoCatchAll(kind) ==
    CASE kind = "ValidationException" ->
            [events |-> <<ErrorEvent(Str("Invalid request to AgentCore"), Str(kind))>>,
             propagate |-> FALSE]
      [] kind = "ThrottlingException" ->
            [events |-> <<ErrorEvent(Str("Request throttled by AgentCore"), Str(kind))>>,
             propagate |-> FALSE]
      [] kind = "InternalServerException" ->
            [events |-> <<ErrorEvent(Str("AgentCore internal error"), Str(kind))>>,
             propagate |-> FALSE]
      [] OTHER ->
            [events |-> <<>>, propagate |-> TRUE]

\* line 455 left out: the stream ends without a DoneEvent (the behaviour C10
\* excludes)
AfterStreamNoDone(events) == events

\* lines 440-455: the events of the rest of the buffer, then DoneEvent
AfterStream(events) == events \o <<DoneEvent>>

\* lines 457-476: the except clauses, tried in order; the last one catches
\* every Exception.  events: what the clause yields; propagate: TRUE when no
\* clause catches the exception
ExceptHandler(kind) ==
    CASE kind = "ValidationException" ->
            [events |-> <<ErrorEvent(Str("Invalid request to AgentCore"), Str(kind))>>,
             propagate |-> FALSE]
      [] kind = "ThrottlingException" ->
            [events |-> <<ErrorEvent(Str("Request throttled by AgentCore"), Str(kind))>>,
             propagate |-> FALSE]
      [] kind = "InternalServerException" ->
            [events |-> <<ErrorEvent(Str("AgentCore internal error"), Str(kind))>>,
             propagate |-> FALSE]
      [] OTHER ->
            [events |-> <<ErrorEvent(Str("Failed to invoke AgentCore"), Str(kind))>>,
             propagate |-> FALSE]

\* ------------------------------------------------------------------------
\* _stream_chat_response and _is_error_result: pure parts
\* ------------------------------------------------------------------------
\* str.lower() on the letters of Alphabet
LowerChar(c) ==
    LET i == CharCode(c)
    IN  IF i >= 27 /\ i <= 52 THEN SubSeq(Alphabet, i - 26, i - 26) ELSE c

RECURSIVE Lower(_)
Lower(s) == IF s = "" THEN "" ELSE LowerChar(SubSeq(s, 1, 1)) \o Lower(Tail(s))

\* chat.py line 104-108
ErrorIndicators ==
    {"error", "failed", "exception", "not found", "invalid", "unable to",
     "could not", "cannot", "traceback", "404", "403", "500", "timeout"}

\* _is_error_result(result, status): value is the truth of what it returns,
\* raise is TRUE when it raises (status.lower() on a status that is not a string)
IsErrorResult(result, status) ==
    IF Truthy(status) /\ status.t # "str" THEN [raise |-> TRUE, value |-> FALSE]
    ELSE IF Truthy(status) /\ Lower(status.v) \in {"error", "failed"}
    THEN [raise |-> FALSE, value |-> TRUE]
    ELSE IF result.t = "str"
    THEN [raise |-> FALSE,
          value |-> \E ind \in ErrorIndicators : IndexOf(Lower(result.v), ind, 1) # 0]
    ELSE IF result.t = "dict"
    THEN [raise |-> FALSE,
          value |-> Truthy(DGet(result, "error")) \/ DGet(result, "status") = Str("error")]
    ELSE [raise |-> FALSE, value |-> FALSE]

\* d[k] = v on a dict
Put(d, k, v) == [x \in DOMAIN d \cup {k} |-> IF x = k THEN v ELSE d[x]]

\* d.pop(k)
Pop(d, k) == [x \in DOMAIN d \ {k} |-> d[x]]

NewCounts == [call_count |-> 0, success_count |-> 0, error_count |-> 0]

\* chat.py lines 156-173: a ToolUseEvent.  raise: the body raised (a tool
\* name or an id that cannot be a dict key)
OnToolUse(counts, pending, event) ==
    LET tool_name == Or(event.tool_name, Str("unknown"))
        counts1   == IF tool_name \in DOMAIN counts THEN counts
                     ELSE Put(counts, tool_name, NewCounts)
    IN  IF ~Hashable(tool_name)
        THEN [raise |-> TRUE, counts |-> counts, pending |-> pending]
        ELSE IF ~Hashable(event.tool_use_id)
        THEN [raise |-> TRUE, counts |-> counts1, pending |-> pending]
        ELSE [raise   |-> FALSE,
              counts  |-> [counts1 EXCEPT ![tool_name].call_count = @ + 1],
              pending |-> Put(pending, event.tool_use_id,
                              [tool_name |-> tool_name, status |-> "pending"])]

\* chat.py lines 176-190: a ToolResultEvent
OnToolResult(counts, pending, event) ==
    LET tool_use_id == event.tool_use_id
    IN  IF ~Hashable(tool_use_id)
        THEN [raise |-> TRUE, counts |-> counts, pending |-> pending]
        ELSE IF tool_use_id \notin DOMAIN pending
        THEN [raise |-> FALSE, counts |-> counts, pending |-> pending]
        ELSE LET tool_name == pending[tool_use_id].tool_name
                 is_error  == IsErrorResult(event.tool_result, event.status)
             IN  IF is_error.raise
                 THEN [raise |-> TRUE, counts |-> counts, pending |-> Pop(pending, tool_use_id)]
                 ELSE [raise   |-> FALSE,
                       counts  |-> IF is_error.value
                                   THEN [counts EXCEPT ![tool_name].error_count = @ + 1]
                                   ELSE [counts EXCEPT ![tool_name].success_count = @ + 1],
                       pending |-> Pop(pending, tool_use_id)]

\* chat.py lines 156-190: the if / elif on the class of the event
OnEvent(counts, pending, event) ==
    IF IsA(event, "tool_use") THEN OnToolUse(counts, pending, event)
    ELSE IF IsA(event, "tool_result") THEN OnToolResult(counts, pending, event)
    ELSE [raise |-> FALSE, counts |-> counts, pending |-> pending]

\* chat.py lines 193-194 with the metrics set by the first MetadataEvent only
\* (the behaviour C14 excludes)
OnMetadataKeepFirst(metrics, event) ==
    IF IsA(event, "metadata") /\ Truthy(event.data) /\ DOMAIN metrics = {}
    THEN event.data.v ELSE metrics

\* chat.py lines 193-194: a MetadataEvent with data replaces the metrics
OnMetadata(metrics, event) ==
    IF IsA(event, "metadata") /\ Truthy(event.data) THEN event.data.v ELSE metrics

\* chat.py line 198 without the test of the action: every GuardrailEvent is
\* stored (the behaviour C13 excludes)
IsViolationAnyAction(event) ==
    IsA(event, "guardrail")

\* chat.py line 198
IsViolation(event) ==
    IsA(event, "guardrail") /\ event.action = Str("GUARDRAIL_INTERVENED")

\* chat.py lines 207-209: every tool use still pending counts as an error
ResolvePending(counts, pending) ==
    [n \in DOMAIN counts |->
        [counts[n] EXCEPT !.error_count =
            @ + Cardinality({i \in DOMAIN pending : pending[i].tool_name = n})]]

\* chat.py lines 212-213: the per-tool counters join the metrics, if there are any
MergeToolMetrics(metrics, counts) ==
    IF DOMAIN counts # {} THEN Put(metrics, "toolMetrics", counts) ELSE metrics

\* chat.py line 217: "if accumulated_metrics:"
ShouldDispatch(metrics) == DOMAIN metrics # {}

\* ------------------------------------------------------------------------
\* State
\* ------------------------------------------------------------------------
VARIABLES
    thinking_filter,  \* the ThinkingFilter object of the invocation
    segs,             \* filter runs: the segments the input text is made of
    input,            \* filter runs: the whole text the stream will carry
    out,              \* filter runs: concatenation of the non-None returns so far
    ret,              \* filter runs: what the last filter() call returned
    prev_sent,        \* filter runs: _sent_length before the last filter() call
    returned_tools,   \* filter runs: every tool get_extracted_tools() handed out
    last_get,         \* filter runs: the last get_extracted_tools() result
    ops,              \* filter runs: the last two calls made on the filter
    pc,               \* invoke_stream: "start", "open" (in the chunk loop) or "closed"
    upstream,         \* invoke_stream: the bytes of the response not read yet
    buffer,           \* invoke_stream: the incomplete line kept between chunks
    lines,            \* invoke_stream: complete lines of the chunk still to process
    pending_events,   \* invoke_stream: events of the current step not yet yielded
    yielded,          \* every event invoke_stream has yielded, in order
    raised,           \* the exceptions raised inside invoke_stream, in order
    propagated,       \* TRUE when an exception left invoke_stream
    read_to_end,      \* TRUE when the chunk loop ran to the end of the upstream
    body,             \* the whole upstream response of the invocation
    parsed,           \* the lines handed to _parse_ndjson_line so far, each with
                      \* the events yielded for it
    orch_pc,          \* _stream_chat_response: "running", "finished" or "raised"
    tool_usage_counts,    \* _stream_chat_response: per-tool counters
    pending_tool_uses,    \* _stream_chat_response: tool uses without a result
    accumulated_metrics,  \* _stream_chat_response: the metrics dict
    sse,              \* the SSE frames _stream_chat_response has yielded
    usage_tasks,      \* the _store_usage_record tasks created, with their metrics
    violation_tasks,  \* the _store_guardrail_violation tasks created
    utf8_decoder,     \* decoder runs: the incremental decoder object
    stream_bytes,     \* decoder runs: the bytes the stream will carry
    fed,              \* decoder runs: how many of them have been given to decode()
    decoded,          \* decoder runs: what each decode() call returned, in order
    flushed,          \* decoder runs: TRUE after decode(b'', final=True)
    storage_tasks,    \* the storage task coroutines that have run: per task the
                      \* writes attempted and how it ended
    requests,         \* concurrent runs: per chat request the locals of its
                      \* _stream_chat_response and invoke_stream generators
    filter_objects,   \* concurrent runs: the ThinkingFilter objects created
    http_request,     \* AuthMiddleware: the request and what its environment
                      \* (configuration, user directory, token service) will answer
    mw_pc,            \* AuthMiddleware.dispatch: "start", "auth" (dev mode passed),
                      \* "refresh" (in _handle_token_refresh) or "done"
    request_state,    \* AuthMiddleware: request.state
    response,         \* AuthMiddleware: the response dispatch returned
    handler_calls,    \* AuthMiddleware: request.state at each call_next(request)
    refresh_calls,    \* AuthMiddleware: number of cognito.refresh_tokens calls
    chat_cookie,      \* SessionManager: the chat-session cookie of the request
    session_calls,    \* SessionManager: the calls made, each with what it returned
                      \* or raised and the cookies it set on its response
    agent_pc,         \* agent invoke: "start", "streaming", "ended" (the agent's
                      \* stream is exhausted), "done" or "failed"
    agent_stream,     \* agent invoke: the events the agent has still to yield
    guardrail_enabled,   \* agent invoke: the hook has a guardrail id and is enabled
    pending_violations,  \* NotifyOnlyGuardrailsHook.pending_violations
    recorded,         \* agent invoke: every violation the hook has recorded
    seen_tool_uses,   \* agent invoke: the tool use ids already yielded
    agent_out         \* agent invoke: what invoke has yielded, in order

\* the variables of the filter runs
filterVars == <<segs, input, out, ret, prev_sent, returned_tools, last_get, ops>>

\* the variables of invoke_stream, and of _stream_chat_response
clientVars == <<pc, upstream, buffer, lines, pending_events, yielded, raised,
                propagated, read_to_end, body, parsed>>
orchVars   == <<orch_pc, tool_usage_counts, pending_tool_uses, accumulated_metrics,
                sse, usage_tasks, violation_tasks>>

\* the variables of the decoder runs, and of the background storage tasks
decoderVars == <<utf8_decoder, stream_bytes, fed, decoded, flushed>>
storageVars == <<storage_tasks>>
\* the variables of the runs with several chat requests
concVars    == <<requests, filter_objects>>
\* the variables of the runs of the authentication middleware
authVars    == <<http_request, mw_pc, request_state, response, handler_calls,
                 refresh_calls>>
\* the variables of the runs of the session manager, and of the agent
sessionVars == <<chat_cookie, session_calls>>
agentVars   == <<agent_pc, agent_stream, guardrail_enabled, pending_violations, recorded,
                 seen_tool_uses, agent_out>>
otherVars   == <<concVars, authVars, sessionVars, agentVars>>
sideVars    == <<decoderVars, storageVars, otherVars>>

vars == <<thinking_filter, filterVars, clientVars, orchVars, sideVars>>

\* ------------------------------------------------------------------------
\* Filter runs: one filter object fed a text in arbitrary pieces
\* ------------------------------------------------------------------------
\* the kinds of segment an input text is assembled from
SegKinds == {"hi", "ok", "think", "tool", "toolp"}

SegText(k) ==
    CASE k = "hi"    -> "Hi"
      [] k = "ok"    -> "ok"
      [] k = "think" -> "<thinking>r</thinking>"
      [] k = "tool"  -> "<__function=f>x</__function>"
      [] k = "toolp" -> "<__function=g><__parameter=p>v</__parameter></__function>"
      [] k = "thinktool" -> "<thinking><__function=f>x</__function></thinking>"
      [] k = "toolHa" -> "<__function=f>Ha</__function>"
      [] k = "toolaG" -> "<__function=f>aG</__function>"

IsPlain(k) == k \in {"hi", "ok"}
IsTool(k)  == k \in {"tool", "toolp"}

RECURSIVE Concat(_)
Concat(ss) == IF ss = <<>> THEN "" ELSE SegText(Head(ss)) \o Concat(Tail(ss))

RECURSIVE PlainText(_)
PlainText(ss) ==
    IF ss = <<>> THEN ""
    ELSE (IF IsPlain(Head(ss)) THEN SegText(Head(ss)) ELSE "") \o PlainText(Tail(ss))

\* number of characters fed to the filter so far
Fed == Len(thinking_filter.full_content)

\* last position of segment k in the input, and its first position
SegEnd(k)   == Len(Concat(SubSeq(segs, 1, k)))
SegStart(k) == SegEnd(k) - Len(SegText(segs[k])) + 1

\* no decoder is in use; no storage task has run
IdleDecoder ==
    /\ utf8_decoder = [buffer |-> <<>>]
    /\ stream_bytes = <<>>
    /\ fed = 0
    /\ decoded = <<>>
    /\ flushed = FALSE

IdleStorage == storage_tasks = <<>>

\* no chat request is in progress
IdleRequests ==
    /\ requests = <<>>
    /\ filter_objects = <<>>

\* the middleware has no request
NoRequest == [path |-> "", cookie |-> "", refresh_cookie |-> "", config |-> "",
              handler |-> "", groups |-> "", refreshed |-> ""]
NoResponse == [status |-> 0, error |-> "", location |-> "", deleted |-> {}, set |-> {}]
NoState == [user |-> "", is_admin |-> "unset", refresh_token |-> ""]

IdleAuth ==
    /\ http_request = NoRequest
    /\ mw_pc = "done"
    /\ request_state = NoState
    /\ response = NoResponse
    /\ handler_calls = <<>>
    /\ refresh_calls = 0

\* no session manager call and no agent invocation
IdleSession ==
    /\ chat_cookie = ""
    /\ session_calls = <<>>

IdleAgent ==
    /\ agent_pc = "done"
    /\ agent_stream = <<>>
    /\ guardrail_enabled = FALSE
    /\ pending_violations = <<>>
    /\ recorded = <<>>
    /\ seen_tool_uses = {}
    /\ agent_out = <<>>

IdleOthers == IdleRequests /\ IdleAuth /\ IdleSession /\ IdleAgent

\* no invocation of invoke_stream or _stream_chat_response has begun
IdleStream ==
    /\ pc = "start"
    /\ upstream = ""
    /\ body = ""
    /\ parsed = <<>>
    /\ buffer = ""
    /\ lines = <<>>
    /\ pending_events = <<>>
    /\ yielded = <<>>
    /\ raised = <<>>
    /\ propagated = FALSE
    /\ read_to_end = FALSE
    /\ orch_pc = "running"
    /\ tool_usage_counts = EmptyDict
    /\ pending_tool_uses = EmptyDict
    /\ accumulated_metrics = EmptyDict
    /\ sse = <<>>
    /\ usage_tasks = <<>>
    /\ violation_tasks = <<>>

InitFilterOn(kinds) ==
    /\ segs \in UNION {[1..n -> kinds] : n \in 1..MaxSegs}
    /\ input = Concat(segs)
    /\ thinking_filter = NewFilter
    /\ out = ""
    /\ ret = [none |-> TRUE, text |-> ""]
    /\ prev_sent = 0
    /\ returned_tools = <<>>
    /\ last_get = <<>>
    /\ ops = <<"new", "new">>
    /\ IdleStream
    /\ IdleDecoder
    /\ IdleStorage
    /\ IdleOthers

\* the caller feeds the next n characters of the text: filter(text)
Filter(n) ==
    /\ n >= 1
    /\ Fed + n <= Len(input)
    /\ \E c \in {FilterCall(thinking_filter, SubSeq(input, Fed + 1, Fed + n))} :
           /\ thinking_filter' = c.f
           /\ ret' = c.ret
           /\ out' = IF c.ret.none THEN out ELSE out \o c.ret.text
    /\ prev_sent' = thinking_filter.sent_length
    /\ ops' = <<ops[2], "filter">>
    /\ UNCHANGED <<segs, input, returned_tools, last_get, clientVars, orchVars>>
    /\ UNCHANGED sideVars

\* the caller drains the queue: get_extracted_tools()
GetExtractedTools ==
    /\ LET g == GetTools(thinking_filter)
       IN  /\ thinking_filter' = g.f
           /\ returned_tools' = returned_tools \o g.tools
           /\ last_get' = g.tools
    /\ ops' = <<ops[2], "get">>
    /\ UNCHANGED <<segs, input, out, ret, prev_sent, clientVars, orchVars>>
    /\ UNCHANGED sideVars

NextFilter ==
    \/ \E n \in 1..MaxChunk : Filter(n)
    \/ Filter(Len(input) - Fed)
    \/ GetExtractedTools

InitFilter == InitFilterOn(SegKinds)

SpecFilter == InitFilter /\ [][NextFilter]_vars

\* texts whose markup is tool-call blocks only: the block of "tool" alone,
\* again inside a <thinking> block, and two blocks of the same tool whose
\* parameter blocks differ and have the same hash
SegKindsExtract == {"hi", "tool", "thinktool", "toolHa", "toolaG"}

InitExtract == InitFilterOn(SegKindsExtract)

SpecExtract == InitExtract /\ [][NextFilter]_vars

\* ------------------------------------------------------------------------
\* Stream runs: one invocation of _stream_chat_response, which iterates
\* invoke_stream over an upstream response read in arbitrary chunks
\* ------------------------------------------------------------------------
\* the lines an upstream response is assembled from (see JsonLoads; "x" is
\* not JSON)
LineCodes == {"t", "n", "u", "w", "r", "e", "s", "l", "m", "g", "x"}

\* the lines joined by newlines
RECURSIVE Join(_)
Join(codes) ==
    IF codes = <<>> THEN ""
    ELSE IF Len(codes) = 1 THEN Head(codes)
    ELSE Head(codes) \o "\n" \o Join(Tail(codes))

\* the upstream responses: up to MaxLines lines, the last one with or
\* without its newline
BodiesOf(codes, max) ==
    {Join(ls) \o end : ls \in UNION {[1..n -> codes] : n \in 0..max},
                       end \in {"", "\n"}}

Bodies == BodiesOf(LineCodes, MaxLines)

\* a fresh invocation on one of the given upstream responses
InitStreamOn(bodies) ==
    /\ thinking_filter = NewFilter
    /\ segs = <<>>
    /\ input = ""
    /\ out = ""
    /\ ret = [none |-> TRUE, text |-> ""]
    /\ prev_sent = 0
    /\ returned_tools = <<>>
    /\ last_get = <<>>
    /\ ops = <<"new", "new">>
    /\ pc = "start"
    /\ upstream \in bodies
    /\ body = upstream
    /\ parsed = <<>>
    /\ buffer = ""
    /\ lines = <<>>
    /\ pending_events = <<>>
    /\ yielded = <<>>
    /\ raised = <<>>
    /\ propagated = FALSE
    /\ read_to_end = FALSE
    /\ orch_pc = "running"
    /\ tool_usage_counts = EmptyDict
    /\ pending_tool_uses = EmptyDict
    /\ accumulated_metrics = EmptyDict
    /\ sse = <<>>
    /\ usage_tasks = <<>>
    /\ violation_tasks = <<>>
    /\ IdleDecoder
    /\ IdleStorage
    /\ IdleOthers

InitStream == InitStreamOn(Bodies)

\* invoke_stream runs only while its consumer is pulling, and goes on from a
\* yield only when everything it had to yield there has been taken
Resumable == orch_pc = "running" /\ pending_events = <<>>

\* client.py lines 345-379: the invocation returns a response with a stream
InvokeOk ==
    /\ pc = "start" /\ Resumable
    /\ pc' = "open"
    /\ UNCHANGED <<thinking_filter, filterVars, upstream, buffer, lines, pending_events,
                   yielded, raised, propagated, read_to_end, body, parsed, orchVars>>
    /\ UNCHANGED sideVars

\* client.py lines 370-372: a response without 'response'
InvokeNoResponse ==
    /\ pc = "start" /\ Resumable
    /\ pending_events' = <<ErrorEvent(Str("No response from AgentCore"), None)>>
    /\ pc' = "closed"
    /\ UNCHANGED <<thinking_filter, filterVars, upstream, buffer, lines,
                   yielded, raised, propagated, read_to_end, body, parsed, orchVars>>
    /\ UNCHANGED sideVars

\* an exception of the given kind reaches the except clauses (lines 457-476)
Raise(kind) ==
    /\ raised' = Append(raised, kind)
    /\ pending_events' = ExceptHandler(kind).events
    /\ propagated' = ExceptHandler(kind).propagate
    /\ pc' = "closed"

\* client.py lines 350-368: building the payload or the invocation raises
InvokeRaises(kind) ==
    /\ pc = "start" /\ Resumable
    /\ Raise(kind)
    /\ UNCHANGED <<thinking_filter, filterVars, upstream, buffer, lines,
                   yielded, read_to_end, body, parsed, orchVars>>
    /\ UNCHANGED sideVars

\* client.py lines 382-416 with the buffer forgotten at line 412: only the
\* new chunk is split into lines (the behaviour C17 excludes)
ReadChunkNoBuffer(n) ==
    /\ pc = "open" /\ Resumable /\ lines = <<>>
    /\ n >= 1 /\ n <= Len(upstream)
    /\ \E parts \in {Split(SubSeq(upstream, 1, n))} :
           /\ lines' = SubSeq(parts, 1, Len(parts) - 1)
           /\ buffer' = parts[Len(parts)]
    /\ upstream' = From(upstream, n + 1)
    /\ UNCHANGED <<thinking_filter, filterVars, pc, pending_events, yielded, raised,
                   propagated, read_to_end, body, parsed, orchVars>>
    /\ UNCHANGED sideVars

\* client.py lines 382-416: the next chunk, of n bytes, is read, decoded and
\* added to the buffer, which is split into complete lines and a rest.  The
\* bytes of the model are ASCII: the decoder returns them as they are.
ReadChunk(n) ==
    /\ pc = "open" /\ Resumable /\ lines = <<>>
    /\ n >= 1 /\ n <= Len(upstream)
    /\ \E parts \in {Split(buffer \o SubSeq(upstream, 1, n))} :
           /\ lines' = SubSeq(parts, 1, Len(parts) - 1)
           /\ buffer' = parts[Len(parts)]
    /\ upstream' = From(upstream, n + 1)
    /\ UNCHANGED <<thinking_filter, filterVars, pc, pending_events, yielded, raised,
                   propagated, read_to_end, body, parsed, orchVars>>
    /\ UNCHANGED sideVars

\* client.py line 382: reading the next chunk raises
ReadRaises(kind) ==
    /\ pc = "open" /\ Resumable /\ lines = <<>>
    /\ Raise(kind)
    /\ UNCHANGED <<thinking_filter, filterVars, upstream, buffer, lines,
                   yielded, read_to_end, body, parsed, orchVars>>
    /\ UNCHANGED sideVars

\* client.py lines 418-432: the next complete line of the chunk
ProcessLine ==
    /\ pc = "open" /\ Resumable /\ lines # <<>>
    /\ lines' = Tail(lines)
    /\ IF IsBlank(Head(lines))
       THEN UNCHANGED <<thinking_filter, pending_events, parsed>>
       ELSE \E addr \in 1..MaxAddr :
              \E res \in {LineEvents(Head(lines), thinking_filter, addr)} :
                  /\ thinking_filter' = res.f
                  /\ pending_events' = res.events
                  /\ parsed' = Append(parsed, [line |-> Head(lines), event |-> res.event,
                                               events |-> res.events])
    /\ UNCHANGED <<filterVars, pc, upstream, buffer, yielded, raised,
                   propagated, read_to_end, body, orchVars>>
    /\ UNCHANGED sideVars

\* client.py lines 434-455: the upstream is exhausted; the decoder is flushed
\* (nothing is left in it), a non-blank rest of the buffer is processed as a
\* line, and DoneEvent is yielded
EndOfStream ==
    /\ pc = "open" /\ Resumable /\ lines = <<>>
    /\ upstream = ""
    /\ IF IsBlank(buffer)
       THEN /\ pending_events' = AfterStream(<<>>)
            /\ UNCHANGED <<thinking_filter, parsed>>
       ELSE \E addr \in 1..MaxAddr :
              \E res \in {LineEvents(buffer, thinking_filter, addr)} :
                  /\ thinking_filter' = res.f
                  /\ pending_events' = AfterStream(res.events)
                  /\ parsed' = Append(parsed, [line |-> buffer, event |-> res.event,
                                               events |-> res.events])
    /\ read_to_end' = TRUE
    /\ pc' = "closed"
    /\ UNCHANGED <<filterVars, upstream, buffer, lines, yielded, raised,
                   propagated, body, orchVars>>
    /\ UNCHANGED sideVars

\* chat.py lines 149-203: invoke_stream yields its next event and the body of
\* the "async for" runs on it: counters, metrics, violation task, SSE frame.
\* When the body raises, the exception leaves _stream_chat_response.
Forward ==
    /\ orch_pc = "running"
    /\ pending_events # <<>>
    /\ pending_events' = Tail(pending_events)
    /\ yielded' = Append(yielded, Head(pending_events))
    /\ \E event \in {Head(pending_events)} :
         \E r \in {OnEvent(tool_usage_counts, pending_tool_uses, event)} :
           /\ tool_usage_counts' = r.counts
           /\ pending_tool_uses' = r.pending
           /\ IF r.raise
              THEN /\ orch_pc' = "raised"
                   /\ UNCHANGED <<accumulated_metrics, violation_tasks, sse>>
              ELSE /\ orch_pc' = "running"
                   /\ accumulated_metrics' = OnMetadata(accumulated_metrics, event)
                   /\ violation_tasks' = IF IsViolation(event)
                                         THEN Append(violation_tasks, event)
                                         ELSE violation_tasks
                   /\ sse' = Append(sse, ToSseFormat(event))
    /\ UNCHANGED <<thinking_filter, filterVars, pc, upstream, buffer, lines, raised,
                   propagated, read_to_end, body, parsed, usage_tasks>>
    /\ UNCHANGED sideVars

\* chat.py lines 205-220: invoke_stream is exhausted; pending tool uses are
\* resolved as errors, the counters join the metrics, and the usage task is
\* created if the metrics are not empty.  An exception that left
\* invoke_stream leaves _stream_chat_response too.
Finish ==
    /\ orch_pc = "running"
    /\ pc = "closed"
    /\ pending_events = <<>>
    /\ IF propagated
       THEN /\ orch_pc' = "raised"
            /\ UNCHANGED <<tool_usage_counts, accumulated_metrics, usage_tasks>>
       ELSE \E counts \in {ResolvePending(tool_usage_counts, pending_tool_uses)} :
              \E metrics \in {MergeToolMetrics(accumulated_metrics, counts)} :
                  /\ orch_pc' = "finished"
                  /\ tool_usage_counts' = counts
                  /\ accumulated_metrics' = metrics
                  /\ usage_tasks' = IF ShouldDispatch(metrics)
                                    THEN Append(usage_tasks, metrics)
                                    ELSE usage_tasks
    /\ UNCHANGED <<thinking_filter, filterVars, clientVars, pending_tool_uses, sse,
                   violation_tasks>>
    /\ UNCHANGED sideVars

NextStream ==
    \/ InvokeOk
    \/ InvokeNoResponse
    \/ \E kind \in ExcKinds : InvokeRaises(kind)
    \/ \E n \in 1..MaxRead : ReadChunk(n)
    \/ ReadChunk(Len(upstream))
    \/ \E kind \in ExcKinds : ReadRaises(kind)
    \/ ProcessLine
    \/ EndOfStream
    \/ Forward
    \/ Finish

SpecStream == InitStream /\ [][NextStream]_vars

\* ------------------------------------------------------------------------
\* Stream runs over responses that hold malformed lines
\* ------------------------------------------------------------------------
\* the malformed lines: "x" is not JSON, "7" is JSON but not an object, "o" is
\* an object of no known shape, "b" and "k" are objects with a nested field
\* of the wrong type (a content block that is a number; a toolUse whose name
\* is a list)
MalformedCodes == {"x", "7", "o", "b", "k"}

LineCodesMalformed == {"t", "n", "u", "r"} \cup MalformedCodes

InitMalformed == InitStreamOn(BodiesOf(LineCodesMalformed, MaxLines))

SpecMalformed == InitMalformed /\ [][NextStream]_vars

\* ------------------------------------------------------------------------
\* Stream runs over lines of every shape _parse_ndjson_line knows, alone and
\* combined in one object, with and without the "data: " prefix
\* ------------------------------------------------------------------------
ShapeCodes ==
    {"t", "T", "h", "u", "r", "g", "c", "d", "f", "y", "m", "v", "o",
     "A", "J", "B", "C", "D", "E", "F", "G", "H", "I"}

ShapeLines == ShapeCodes \cup {"data: " \o code : code \in ShapeCodes}

InitShapes == InitStreamOn(BodiesOf(ShapeLines, MaxShapeLines))

SpecShapes == InitShapes /\ [][NextStream]_vars

\* ------------------------------------------------------------------------
\* Stream runs over responses that hold guardrail lines: "g" intervened, "a"
\* and "E" not, among text, a tool use and a tool result that makes the body
\* of the "async for" raise
\* ------------------------------------------------------------------------
LineCodesGuardrail == {"g", "a", "E", "t", "u", "s"}

InitGuardrail == InitStreamOn(BodiesOf(LineCodesGuardrail, MaxLines))

SpecGuardrail == InitGuardrail /\ [][NextStream]_vars

\* ------------------------------------------------------------------------
\* Stream runs over responses that hold metadata lines of different values
\* and shapes ("m", "M", "v") among tool uses and tool results
\* ------------------------------------------------------------------------
LineCodesMetadata == {"m", "M", "v", "u", "w", "r", "s"}

\* ------------------------------------------------------------------------
\* Stream runs over responses with lines longer than a chunk, empty lines
\* and lines of blanks
\* ------------------------------------------------------------------------
LineCodesChunks == {"t", "data: n", "data: u", "r", "x", "", " "}

InitChunks == InitStreamOn(BodiesOf(LineCodesChunks, MaxLines))

SpecChunks == InitChunks /\ [][NextStream]_vars

InitMetadata == InitStreamOn(BodiesOf(LineCodesMetadata, MaxLines))

SpecMetadata == InitMetadata /\ [][NextStream]_vars

\* ------------------------------------------------------------------------
\* Stream runs over responses that hold the agent's error line, among text,
\* text that is all thinking, tool events, a guardrail line and metadata
\* ------------------------------------------------------------------------
LineCodesInBand == {"Z", "P", "t", "h", "u", "r", "g", "m"}

InitInBand == InitStreamOn(BodiesOf(LineCodesInBand, MaxLines))

SpecInBand == InitInBand /\ [][NextStream]_vars

\* ------------------------------------------------------------------------
\* Stream runs over tool uses and tool results: ids that repeat, that are
\* shared by two tools, that are missing, that were never used, and an id
\* that is a list
\* ------------------------------------------------------------------------
LineCodesTools == {"u", "p", "N", "r", "R", "q", "L"}

InitTools == InitStreamOn(BodiesOf(LineCodesTools, MaxLines))

SpecTools == InitTools /\ [][NextStream]_vars

\* ------------------------------------------------------------------------
\* The incremental UTF-8 decoder of invoke_stream (client.py lines 379, 411
\* and 435-437): codecs.getincrementaldecoder('utf-8')('replace').  Bytes
\* are integers 0..255, decoded text is a sequence of code points.
\* ------------------------------------------------------------------------
\* U+FFFD, what the 'replace' error handler puts for bytes that are no UTF-8
ReplacementChar == 65533

\* how many continuation bytes the lead byte ch announces; 0 for a byte that
\* cannot start a character (0x80..0xC1, 0xF5..0xFF)
Utf8Need(ch) ==
    IF ch >= 194 /\ ch <= 223 THEN 1
    ELSE IF ch >= 224 /\ ch <= 239 THEN 2
    ELSE IF ch >= 240 /\ ch <= 244 THEN 3
    ELSE 0

\* the range of the k-th continuation byte after the lead byte ch: the second
\* byte is narrowed after 0xE0, 0xED, 0xF0 and 0xF4 (no overlong forms, no
\* surrogates, nothing above U+10FFFF)
Utf8Lo(ch, k) == IF k = 1 /\ ch = 224 THEN 160 ELSE IF k = 1 /\ ch = 240 THEN 144 ELSE 128
Utf8Hi(ch, k) == IF k = 1 /\ ch = 237 THEN 159 ELSE IF k = 1 /\ ch = 244 THEN 143 ELSE 191

\* the code point of the complete character at data[i .. i + need]
Utf8CodePoint(data, i, need) ==
    IF need = 1 THEN (data[i] % 32) * 64 + (data[i + 1] % 64)
    ELSE IF need = 2 THEN (data[i] % 16) * 4096 + (data[i + 1] % 64) * 64
                          + (data[i + 2] % 64)
    ELSE (data[i] % 8) * 262144 + (data[i + 1] % 64) * 4096
         + (data[i + 2] % 64) * 64 + (data[i + 3] % 64)

\* decoding data from position i on.  A character cut off by the end of data
\* is replaced when final, and left unconsumed otherwise; a lead byte followed
\* by a byte that cannot continue it is replaced, and decoding resumes at that
\* byte.  One case is held back when not final although it can never become
\* valid: 0xED and one byte of 0xA0..0xBF at the very end of data, the
\* beginning of a surrogate.  Returns the text and the bytes left unconsumed.
RECURSIVE Utf8DecodeFrom(_, _, _)
Utf8DecodeFrom(data, i, final) ==
    IF i > Len(data) THEN [out |-> <<>>, rest |-> <<>>]
    ELSE LET ch   == data[i]
             need == Utf8Need(ch)
             Ok(k) == /\ i + k <= Len(data)
                      /\ data[i + k] >= Utf8Lo(ch, k)
                      /\ data[i + k] <= Utf8Hi(ch, k)
             good == CHOOSE k \in 0..need :
                        /\ \A j \in 1..k : Ok(j)
                        /\ k = need \/ ~Ok(k + 1)
             Then(c, next) == LET r == Utf8DecodeFrom(data, next, final)
                              IN  [out |-> <<c>> \o r.out, rest |-> r.rest]
         IN  IF ch < 128 THEN Then(ch, i + 1)
             ELSE IF need = 0 THEN Then(ReplacementChar, i + 1)
             ELSE IF good = need THEN Then(Utf8CodePoint(data, i, need), i + need + 1)
             ELSE IF /\ ~final /\ ch = 237 /\ i + 1 = Len(data)
                     /\ data[i + 1] >= 160 /\ data[i + 1] <= 191
                  THEN [out |-> <<>>, rest |-> SubSeq(data, i, Len(data))]
             ELSE IF i + good + 1 <= Len(data) THEN Then(ReplacementChar, i + good + 1)
             ELSE IF final THEN [out |-> <<ReplacementChar>>, rest |-> <<>>]
             ELSE [out |-> <<>>, rest |-> SubSeq(data, i, Len(data))]

Utf8Decode(data, final) == Utf8DecodeFrom(data, 1, final)

\* a new decoder object: nothing buffered
NewDecoder == [buffer |-> <<>>]

\* utf8_decoder.decode(raw_bytes, final) forgetting what the last call left over
DecoderCallStateless(dec, raw_bytes, final) ==
    [out |-> Utf8Decode(raw_bytes, TRUE).out, dec |-> NewDecoder]

\* utf8_decoder.decode(raw_bytes, final): the bytes left by the last call are put
\* before raw_bytes, and the bytes left unconsumed now are kept in the decoder
DecoderCall(dec, raw_bytes, final) ==
    LET r == Utf8Decode(dec.buffer \o raw_bytes, final)
    IN  [out |-> r.out, dec |-> [buffer |-> r.rest]]

\* the bytes of the decoder runs: "A"; 0xC3, which with 0x82 makes U+00C2;
\* the three bytes of U+20AC; 0xF0 and 0x9F, which with 0x82 0xAC make
\* U+1F0AC; 0xED, which with 0xAC begins a surrogate.  The continuation bytes
\* are invalid where no lead byte precedes them.
ByteAlphabet == {65, 195, 226, 130, 172, 240, 159, 237}

RECURSIVE ByteSeqs(_)
ByteSeqs(n) ==
    IF n = 0 THEN {<<>>}
    ELSE LET shorter == ByteSeqs(n - 1)
         IN  shorter \cup {Append(s, b) : s \in {t \in shorter : Len(t) = n - 1},
                                            b \in ByteAlphabet}

\* client.py line 379: a response of up to MaxBytes bytes and a new decoder
InitDecoder ==
    /\ thinking_filter = NewFilter
    /\ segs = <<>>
    /\ input = ""
    /\ out = ""
    /\ ret = [none |-> TRUE, text |-> ""]
    /\ prev_sent = 0
    /\ returned_tools = <<>>
    /\ last_get = <<>>
    /\ ops = <<"new", "new">>
    /\ IdleStream
    /\ IdleStorage
    /\ IdleOthers
    /\ utf8_decoder = NewDecoder
    /\ stream_bytes \in ByteSeqs(MaxBytes)
    /\ fed = 0
    /\ decoded = <<>>
    /\ flushed = FALSE

\* client.py lines 382-412: the next chunk, of n bytes, is decoded
DecodeChunk(n) ==
    /\ ~flushed
    /\ n >= 1 /\ fed + n <= Len(stream_bytes)
    /\ \E r \in {DecoderCall(utf8_decoder, SubSeq(stream_bytes, fed + 1, fed + n), FALSE)} :
           /\ utf8_decoder' = r.dec
           /\ decoded' = Append(decoded, r.out)
    /\ fed' = fed + n
    /\ UNCHANGED <<thinking_filter, filterVars, clientVars, orchVars, storageVars,
                   otherVars, stream_bytes, flushed>>

\* client.py lines 435-437: the stream has ended and the decoder is flushed
Flush ==
    /\ ~flushed
    /\ fed = Len(stream_bytes)
    /\ \E r \in {DecoderCall(utf8_decoder, <<>>, TRUE)} :
           /\ utf8_decoder' = r.dec
           /\ decoded' = Append(decoded, r.out)
    /\ flushed' = TRUE
    /\ UNCHANGED <<thinking_filter, filterVars, clientVars, orchVars, storageVars,
                   otherVars, stream_bytes, fed>>

NextDecoder ==
    \/ \E n \in 1..MaxBytes : DecodeChunk(n)
    \/ Flush

SpecDecoder == InitDecoder /\ [][NextDecoder]_vars

\* ------------------------------------------------------------------------
\* The background storage tasks: _store_usage_record and
\* _store_guardrail_violation (chat.py lines 223-364), and the storage
\* services they call (storage/usage.py, storage/guardrail.py)
\* ------------------------------------------------------------------------
\* the tasks created so far: asyncio.create_task at chat.py lines 199 and 218
TaskIds ==
    {<<"usage", i>> : i \in 1..Len(usage_tasks)}
        \cup {<<"violation", i>> : i \in 1..Len(violation_tasks)}

\* a task coroutine that has begun to run.  calls: how often it has called
\* store_usage or store_violation; attempts: how often the storage client has
\* sent the write; stored: the write succeeded; logged: the logger.error
\* calls; raised: an exception has left the coroutine
NewTask == [pc |-> "building", calls |-> 0, attempts |-> 0, stored |-> FALSE,
            logged |-> 0, raised |-> FALSE]

\* the except clause with the log call left out and the exception raised again
TaskExceptReraise(task) == [task EXCEPT !.pc = "done", !.raised = TRUE]

\* chat.py lines 299-309 and 355-364: "except Exception" around the whole
\* body of the task: the failure is logged and the coroutine returns
TaskExcept(task) == [task EXCEPT !.pc = "done", !.logged = @ + 1]

\* usage.py lines 82-100, guardrail.py lines 83-102: store_usage and
\* store_violation log a ClientError or any other Exception of the write and
\* return; the task goes on to its end
StoreExcept(task) == [task EXCEPT !.pc = "done", !.logged = @ + 1]

\* the results of one sending of the write by the storage client: accepted;
\* an error the client retries (throttling, a server error, the connection);
\* an error it does not retry
WriteResults == {"ok", "retryable", "fatal"}

\* chat.py lines 245-291 and 331-343: the task begins to run and an exception
\* is raised while the record or the storage service is built
TaskFailsEarly(id) ==
    /\ id \in TaskIds \ DOMAIN storage_tasks
    /\ storage_tasks' = (id :> TaskExcept(NewTask)) @@ storage_tasks
    /\ UNCHANGED <<thinking_filter, filterVars, clientVars, orchVars, decoderVars, otherVars>>

\* chat.py lines 245-292 and 331-344: the task begins to run, builds the
\* record and awaits store_usage or store_violation, which hands _put_item to
\* the executor (usage.py lines 69-76)
TaskStore(id) ==
    /\ id \in TaskIds \ DOMAIN storage_tasks
    /\ storage_tasks' = (id :> [NewTask EXCEPT !.pc = "storing", !.calls = 1])
                            @@ storage_tasks
    /\ UNCHANGED <<thinking_filter, filterVars, clientVars, orchVars, decoderVars, otherVars>>

\* usage.py lines 110-113 under the client configuration of lines 52-57: the
\* storage client sends the write.  A retryable error is retried by the
\* client itself up to MaxRetries times inside the one put_item call; then,
\* or on any other error, the exception reaches the except clauses of
\* store_usage.
PutItem(id, result) ==
    /\ id \in DOMAIN storage_tasks
    /\ storage_tasks[id].pc = "storing"
    /\ \E task \in {[storage_tasks[id] EXCEPT !.attempts = @ + 1]} :
         storage_tasks' = [storage_tasks EXCEPT ![id] =
            IF result = "ok" THEN [task EXCEPT !.pc = "done", !.stored = TRUE]
            ELSE IF result = "retryable" /\ task.attempts <= MaxRetries THEN task
            ELSE StoreExcept(task)]
    /\ UNCHANGED <<thinking_filter, filterVars, clientVars, orchVars, decoderVars, otherVars>>

\* the tasks a response of the storage runs can make
AllTaskIds == {"usage", "violation"} \X (1..MaxStorageLines)

NextStorage ==
    \/ NextStream
    \/ \E id \in AllTaskIds : TaskFailsEarly(id)
    \/ \E id \in AllTaskIds : TaskStore(id)
    \/ \E id \in AllTaskIds, result \in WriteResults : PutItem(id, result)

\* ------------------------------------------------------------------------
\* Stream runs in which the consumer may stop pulling: the generator
\* _stream_chat_response is closed or cancelled while it is suspended at the
\* yield of line 203
\* ------------------------------------------------------------------------
\* chat.py lines 149-203 with the rest of the function in a "finally" clause:
\* the disconnect runs lines 205-220 (the behaviour C28 excludes)
DisconnectFinalises ==
    /\ orch_pc = "running"
    /\ pending_events # <<>>
    /\ pending_events' = Tail(pending_events)
    /\ yielded' = Append(yielded, Head(pending_events))
    /\ \E event \in {Head(pending_events)} :
         \E r \in {OnEvent(tool_usage_counts, pending_tool_uses, event)} :
           /\ ~r.raise
           /\ pending_tool_uses' = r.pending
           /\ violation_tasks' = IF IsViolation(event)
                                 THEN Append(violation_tasks, event)
                                 ELSE violation_tasks
           /\ sse' = Append(sse, ToSseFormat(event))
           /\ \E counts \in {ResolvePending(r.counts, r.pending)} :
                \E metrics \in {MergeToolMetrics(OnMetadata(accumulated_metrics, event),
                                                 counts)} :
                  /\ tool_usage_counts' = counts
                  /\ accumulated_metrics' = metrics
                  /\ usage_tasks' = IF ShouldDispatch(metrics)
                                    THEN Append(usage_tasks, metrics)
                                    ELSE usage_tasks
    /\ orch_pc' = "cancelled"
    /\ UNCHANGED <<thinking_filter, filterVars, pc, upstream, buffer, lines, raised,
                   propagated, read_to_end, body, parsed>>
    /\ UNCHANGED sideVars

\* chat.py lines 149-203, the last time: the body of the "async for" runs on
\* the next event and yields its frame, and the consumer, instead of pulling
\* again, closes the generator: GeneratorExit (or CancelledError) is raised
\* at the yield of line 203, no clause catches it and no "finally" runs, so
\* the function is left with lines 205-220 not executed
Disconnect ==
    /\ orch_pc = "running"
    /\ pending_events # <<>>
    /\ pending_events' = Tail(pending_events)
    /\ yielded' = Append(yielded, Head(pending_events))
    /\ \E event \in {Head(pending_events)} :
         \E r \in {OnEvent(tool_usage_counts, pending_tool_uses, event)} :
           /\ ~r.raise
           /\ tool_usage_counts' = r.counts
           /\ pending_tool_uses' = r.pending
           /\ accumulated_metrics' = OnMetadata(accumulated_metrics, event)
           /\ violation_tasks' = IF IsViolation(event)
                                 THEN Append(violation_tasks, event)
                                 ELSE violation_tasks
           /\ sse' = Append(sse, ToSseFormat(event))
    /\ orch_pc' = "cancelled"
    /\ UNCHANGED <<thinking_filter, filterVars, pc, upstream, buffer, lines, raised,
                   propagated, read_to_end, body, parsed, usage_tasks>>
    /\ UNCHANGED sideVars

NextDisconnect ==
    \/ NextStream
    \/ Disconnect

\* responses with tool uses and results, metadata and intervening guardrail lines
LineCodesDisconnect == {"u", "r", "m", "g", "t"}

InitDisconnect == InitStreamOn(BodiesOf(LineCodesDisconnect, MaxLines))

SpecDisconnect == InitDisconnect /\ [][NextDisconnect]_vars

\* responses with intervening guardrail lines and metadata, which make tasks
LineCodesStorage == {"g", "m", "t"}

InitStorage == InitStreamOn(BodiesOf(LineCodesStorage, MaxStorageLines))

SpecStorage == InitStorage /\ [][NextStorage]_vars

\* ------------------------------------------------------------------------
\* Concurrent runs: several chat requests in progress in one event loop,
\* each with its own _stream_chat_response generator, which iterates its own
\* invoke_stream generator.  A step is a part of one request's run between
\* two points where the generators can be suspended; the steps of the
\* requests interleave in any order.
\* ------------------------------------------------------------------------
ReqIds == 1..MaxRequests

\* chat.py lines 140-147 and client.py line 343 with one ThinkingFilter kept
\* at module level: every invocation after the first uses the first object
\* (the behaviour C21 excludes)
AllocFilterShared(objects) ==
    IF objects = <<>>
    THEN [objects |-> Append(objects, NewFilter), ref |-> Len(objects) + 1]
    ELSE [objects |-> objects, ref |-> 1]

\* client.py line 343: thinking_filter = ThinkingFilter(), a new object for
\* every invocation of invoke_stream
AllocFilter(objects) ==
    [objects |-> Append(objects, NewFilter), ref |-> Len(objects) + 1]

\* chat.py lines 140-147: the locals of a request that has not begun, on the
\* lines its upstream response will carry
NewRequest(lines_of) ==
    [response |-> lines_of, todo |-> lines_of, addrs |-> <<>>, pc |-> "start",
     filter_ref |-> 0, pending_events |-> <<>>, orch_pc |-> "running",
     tool_usage_counts |-> EmptyDict, pending_tool_uses |-> EmptyDict,
     accumulated_metrics |-> EmptyDict, sse |-> <<>>, usage_tasks |-> <<>>,
     violation_tasks |-> <<>>]

\* chat.py lines 155-203: the body of the "async for" on one event, on the
\* locals rq of the request
LoopBody(rq, event) ==
    LET r == OnEvent(rq.tool_usage_counts, rq.pending_tool_uses, event)
    IN  IF r.raise
        THEN [rq EXCEPT !.tool_usage_counts = r.counts,
                        !.pending_tool_uses = r.pending,
                        !.orch_pc = "raised"]
        ELSE [rq EXCEPT !.tool_usage_counts = r.counts,
                        !.pending_tool_uses = r.pending,
                        !.accumulated_metrics = OnMetadata(@, event),
                        !.violation_tasks = IF IsViolation(event) THEN Append(@, event)
                                            ELSE @,
                        !.sse = Append(@, ToSseFormat(event))]

\* chat.py lines 205-220 on the locals rq of the request
Finalise(rq) ==
    LET counts  == ResolvePending(rq.tool_usage_counts, rq.pending_tool_uses)
        metrics == MergeToolMetrics(rq.accumulated_metrics, counts)
    IN  [rq EXCEPT !.orch_pc = "finished",
                   !.tool_usage_counts = counts,
                   !.accumulated_metrics = metrics,
                   !.usage_tasks = IF ShouldDispatch(metrics) THEN Append(@, metrics)
                                   ELSE @]

\* responses with text that holds a tool-call block, a tool use, its result
\* and metadata
LineCodesRequests == {"n", "u", "r", "m"}

InitRequests ==
    /\ thinking_filter = NewFilter
    /\ segs = <<>>
    /\ input = ""
    /\ out = ""
    /\ ret = [none |-> TRUE, text |-> ""]
    /\ prev_sent = 0
    /\ returned_tools = <<>>
    /\ last_get = <<>>
    /\ ops = <<"new", "new">>
    /\ IdleStream
    /\ IdleDecoder
    /\ IdleStorage
    /\ requests \in [ReqIds -> {NewRequest(lines_of) :
                                   lines_of \in UNION {[1..n -> LineCodesRequests] :
                                                          n \in 0..MaxRequestLines}}]
    /\ filter_objects = <<>>
    /\ IdleAuth
    /\ IdleSession
    /\ IdleAgent

Resumed(i) == requests[i].orch_pc = "running" /\ requests[i].pending_events = <<>>

\* client.py lines 341-379: invoke_stream of request i begins and creates
\* its filter
Begin(i) ==
    /\ i \in DOMAIN requests
    /\ requests[i].pc = "start" /\ Resumed(i)
    /\ \E a \in {AllocFilter(filter_objects)} :
           /\ filter_objects' = a.objects
           /\ requests' = [requests EXCEPT ![i].pc = "open", ![i].filter_ref = a.ref]
    /\ UNCHANGED <<thinking_filter, filterVars, clientVars, orchVars, decoderVars,
                   storageVars, authVars, sessionVars, agentVars>>

\* client.py lines 382-432: the next line of the response of request i is
\* parsed with the filter of the invocation
NextLine(i, addr) ==
    /\ i \in DOMAIN requests
    /\ requests[i].pc = "open" /\ Resumed(i)
    /\ requests[i].todo # <<>>
    /\ \E res \in {LineEvents(Head(requests[i].todo),
                              filter_objects[requests[i].filter_ref], addr)} :
           /\ filter_objects' = [filter_objects EXCEPT ![requests[i].filter_ref] = res.f]
           /\ requests' = [requests EXCEPT ![i].todo = Tail(@),
                                           ![i].addrs = Append(@, addr),
                                           ![i].pending_events = res.events]
    /\ UNCHANGED <<thinking_filter, filterVars, clientVars, orchVars, decoderVars,
                   storageVars, authVars, sessionVars, agentVars>>

\* client.py lines 434-455: the response of request i is exhausted
EndOfResponse(i) ==
    /\ i \in DOMAIN requests
    /\ requests[i].pc = "open" /\ Resumed(i)
    /\ requests[i].todo = <<>>
    /\ requests' = [requests EXCEPT ![i].pc = "closed",
                                    ![i].pending_events = AfterStream(<<>>)]
    /\ UNCHANGED <<thinking_filter, filterVars, clientVars, orchVars, decoderVars,
                   storageVars, filter_objects, authVars, sessionVars,
                   agentVars>>

\* chat.py lines 149-203: the next event of request i reaches the loop body
\* and its frame is yielded
ForwardOf(i) ==
    /\ i \in DOMAIN requests
    /\ requests[i].orch_pc = "running"
    /\ requests[i].pending_events # <<>>
    /\ requests' =
           [requests EXCEPT ![i] =
               [LoopBody(@, Head(@.pending_events)) EXCEPT
                    !.pending_events = Tail(@)]]
    /\ UNCHANGED <<thinking_filter, filterVars, clientVars, orchVars, decoderVars,
                   storageVars, filter_objects, authVars, sessionVars,
                   agentVars>>

\* chat.py lines 205-220: the finalisation of request i
FinishOf(i) ==
    /\ i \in DOMAIN requests
    /\ requests[i].orch_pc = "running"
    /\ requests[i].pc = "closed"
    /\ requests[i].pending_events = <<>>
    /\ requests' = [requests EXCEPT ![i] = Finalise(@)]
    /\ UNCHANGED <<thinking_filter, filterVars, clientVars, orchVars, decoderVars,
                   storageVars, filter_objects, authVars, sessionVars,
                   agentVars>>

NextRequests ==
    \/ \E i \in ReqIds : Begin(i)
    \/ \E i \in ReqIds, addr \in 1..MaxAddr : NextLine(i, addr)
    \/ \E i \in ReqIds : EndOfResponse(i)
    \/ \E i \in ReqIds : ForwardOf(i)
    \/ \E i \in ReqIds : FinishOf(i)

SpecRequests == InitRequests /\ [][NextRequests]_vars

\* ------------------------------------------------------------------------
\* AuthMiddleware (chatapp/app/auth/middleware.py): one request through
\* dispatch.  The request carries, beside its path and cookies, what its
\* environment will answer: the configuration, the handler behind the
\* middleware, the user directory and the token service.
\* ------------------------------------------------------------------------
\* lines 27-49
SESSION_COOKIE_NAME == "chatapp_session"
REFRESH_COOKIE_NAME == "chatapp_session_refresh"
PUBLIC_ROUTES ==
    {"/", "/health", "/auth/login", "/auth/callback", "/docs", "/openapi.json", "/redoc"}
PUBLIC_PREFIXES == {"/static/"}
ADMIN_PREFIXES == {"/admin"}

\* lines 74-83, 85-98, 195-210
IsApiRoute(path) == StartsWith(path, "/api/")
IsAdminRoute(path) == \E prefix \in ADMIN_PREFIXES : StartsWith(path, prefix)
IsPublicRoute(path) ==
    \/ path \in PUBLIC_ROUTES
    \/ \E prefix \in PUBLIC_PREFIXES : StartsWith(path, prefix)

\* json.loads on the text of the session cookie: raise, or the value.  "x"
\* is not JSON; the one-letter texts stand for session objects:
\*   V {"access_token":"good","username":"ann"}   U {"access_token":"good","id_token":"ann"}
\*   G {"access_token":"good"}                     I {"access_token":"bad","username":"ann"}
\*   E {"access_token":"old","username":"ann"}    e {"access_token":"old"}
\*   A {"username":"ann"}
CookieLoads(cookie_value) ==
    CASE cookie_value = "0"   -> [raise |-> FALSE, value |-> Num(0)]
      [] cookie_value = "7"   -> [raise |-> FALSE, value |-> Num(7)]
      [] cookie_value = "[1]" -> [raise |-> FALSE, value |-> List(<<Num(1)>>)]
      [] cookie_value = "{}"  -> [raise |-> FALSE, value |-> Dict(EmptyDict)]
      [] cookie_value = "V"   ->
            [raise |-> FALSE, value |-> Dict([access_token |-> "good", username |-> "ann"])]
      [] cookie_value = "U"   ->
            [raise |-> FALSE, value |-> Dict([access_token |-> "good", id_token |-> "ann"])]
      [] cookie_value = "G"   -> [raise |-> FALSE, value |-> Dict([access_token |-> "good"])]
      [] cookie_value = "I"   ->
            [raise |-> FALSE, value |-> Dict([access_token |-> "bad", username |-> "ann"])]
      [] cookie_value = "E"   ->
            [raise |-> FALSE, value |-> Dict([access_token |-> "old", username |-> "ann"])]
      [] cookie_value = "e"   -> [raise |-> FALSE, value |-> Dict([access_token |-> "old"])]
      [] cookie_value = "A"   -> [raise |-> FALSE, value |-> Dict([username |-> "ann"])]
      [] OTHER                -> [raise |-> TRUE, value |-> None]

\* session_data.get(key, default) on a session object; "" stands for None
SessionGet(session_data, key, default) ==
    IF key \in DOMAIN session_data.v THEN session_data.v[key] ELSE default

\* lines 212-238: _get_session_from_cookie: the session data (None when the
\* cookie is missing, empty or not JSON) and request.state afterwards
GetSessionFromCookie(req, state) ==
    IF req.cookie = "" THEN [session_data |-> None, state |-> state]
    ELSE LET loaded == CookieLoads(req.cookie)
         IN  IF loaded.raise THEN [session_data |-> None, state |-> state]
             ELSE [session_data |-> loaded.value,
                   state |-> IF req.refresh_cookie # ""
                             THEN [state EXCEPT !.refresh_token = req.refresh_cookie]
                             ELSE state]

\* cognito.py lines 290-378: validate_token on an access token and an id
\* token: "ok" with the user, "expired" (TokenExpiredError) or "invalid"
\* (TokenValidationError).  The token "good" is signed, current and of this
\* pool, "old" is signed and past its expiry.
ValidateToken(token, id_token) ==
    CASE token = "good" -> [kind |-> "ok", username |-> id_token]
      [] token = "old"  -> [kind |-> "expired", username |-> ""]
      [] OTHER          -> [kind |-> "invalid", username |-> ""]

\* cognito.py lines 407-427: the groups get_user_groups returns for the user
\* of the request; lines 163-169: [] when the lookup raises
UserGroups(req) ==
    CASE req.groups = "Admin" -> {"Admin"}
      [] req.groups = "Users" -> {"Users"}
      [] OTHER                -> {}

\* cognito.py lines 430-439
IsAdmin(groups) == "Admin" \in groups

\* lines 240-268 and 297-316: _handle_auth_failure
HandleAuthFailure(is_api, error) ==
    IF is_api
    THEN [status |-> 401, error |-> error, location |-> "",
          deleted |-> {SESSION_COOKIE_NAME}, set |-> {}]
    ELSE [status |-> 302, error |-> "", location |-> "/auth/login",
          deleted |-> {SESSION_COOKIE_NAME}, set |-> {}]

\* lines 270-295: _handle_forbidden
HandleForbidden(is_api) ==
    IF is_api
    THEN [status |-> 403, error |-> "admin_required", location |-> "",
          deleted |-> {}, set |-> {}]
    ELSE [status |-> 302, error |-> "", location |-> "/chat", deleted |-> {}, set |-> {}]

\* the response of the route handler, and the response Starlette makes of an
\* exception that leaves dispatch
HandlerResponse == [status |-> 200, error |-> "", location |-> "", deleted |-> {}, set |-> {}]
ServerError(exception) ==
    [status |-> 500, error |-> exception, location |-> "", deleted |-> {}, set |-> {}]

\* the paths, cookies and answers of the environment a request is drawn from
Paths == {"/health", "/static/app.js", "/chat", "/api/chat", "/admin", "/admin/api/stats",
          "/api/admin"}
CookieValues == {"", "x", "0", "7", "[1]", "{}", "V", "U", "G", "I", "E", "e", "A"}

InitAuth ==
    /\ thinking_filter = NewFilter
    /\ segs = <<>>
    /\ input = ""
    /\ out = ""
    /\ ret = [none |-> TRUE, text |-> ""]
    /\ prev_sent = 0
    /\ returned_tools = <<>>
    /\ last_get = <<>>
    /\ ops = <<"new", "new">>
    /\ IdleStream
    /\ IdleDecoder
    /\ IdleStorage
    /\ IdleRequests
    /\ IdleSession
    /\ IdleAgent
    /\ http_request \in [path : Paths, cookie : CookieValues, refresh_cookie : {"", "rt"},
                         config : {"dev", "prod", "raises"}, handler : {"ok", "raises"},
                         groups : {"Admin", "Users", "none", "raises"},
                         refreshed : {"good", "bad", "old", "raises"}]
    /\ mw_pc = "start"
    /\ request_state = NoState
    /\ response = NoResponse
    /\ handler_calls = <<>>
    /\ refresh_calls = 0

\* the variables no middleware action changes
notAuthVars == <<thinking_filter, filterVars, clientVars, orchVars, decoderVars,
                 storageVars, concVars, sessionVars, agentVars>>

\* lines 111-113: a public route goes to the handler at once
PublicRoute ==
    /\ mw_pc = "start"
    /\ IsPublicRoute(http_request.path)
    /\ handler_calls' = Append(handler_calls, request_state)
    /\ response' = IF http_request.handler = "raises" THEN ServerError("handler")
                   ELSE HandlerResponse
    /\ mw_pc' = "done"
    /\ UNCHANGED <<http_request, request_state, refresh_calls, notAuthVars>>

\* lines 115-135: in dev mode the request gets a mock user and admin access
\* and goes to the handler; an exception of get_config, and as well one of
\* the handler, is passed over and the normal authentication follows
DevMode ==
    /\ mw_pc = "start"
    /\ ~IsPublicRoute(http_request.path)
    /\ IF http_request.config = "dev"
       THEN /\ request_state' = [request_state EXCEPT !.user = "dev-user",
                                                      !.is_admin = "true"]
            /\ handler_calls' = Append(handler_calls, request_state')
            /\ IF http_request.handler = "raises"
               THEN mw_pc' = "auth" /\ UNCHANGED response
               ELSE mw_pc' = "done" /\ response' = HandlerResponse
       ELSE /\ mw_pc' = "auth"
            /\ UNCHANGED <<request_state, handler_calls, response>>
    /\ UNCHANGED <<http_request, refresh_calls, notAuthVars>>

\* lines 137-144: no session data
NoSession ==
    /\ mw_pc = "auth"
    /\ \E got \in {GetSessionFromCookie(http_request, request_state)} :
           /\ ~Truthy(got.session_data)
           /\ request_state' = got.state
    /\ response' = HandleAuthFailure(IsApiRoute(http_request.path), "no_session")
    /\ mw_pc' = "done"
    /\ UNCHANGED <<http_request, handler_calls, refresh_calls, notAuthVars>>

\* lines 147-151: the session data is JSON that is not an object:
\* session_data.get raises AttributeError, which no clause of dispatch catches
SessionNotAnObject ==
    /\ mw_pc = "auth"
    /\ \E got \in {GetSessionFromCookie(http_request, request_state)} :
           /\ Truthy(got.session_data)
           /\ got.session_data.t # "dict"
           /\ request_state' = got.state
    /\ response' = ServerError("AttributeError")
    /\ mw_pc' = "done"
    /\ UNCHANGED <<http_request, handler_calls, refresh_calls, notAuthVars>>

\* lines 146-187: the access token is valid: the user's groups are fetched,
\* is_admin is set, an admin route is refused to a user who is no admin, and
\* the request goes to the handler
TokenValid ==
    /\ mw_pc = "auth"
    /\ \E got \in {GetSessionFromCookie(http_request, request_state)} :
         /\ Truthy(got.session_data)
         /\ got.session_data.t = "dict"
         /\ \E user_info \in {ValidateToken(SessionGet(got.session_data, "access_token", ""),
                                            SessionGet(got.session_data, "id_token", ""))} :
              /\ user_info.kind = "ok"
              /\ \E username_for_groups \in
                      {IF user_info.username # "" THEN user_info.username
                       ELSE SessionGet(got.session_data, "username", "")} :
                   \E user_groups \in {IF username_for_groups # "" THEN UserGroups(http_request)
                                       ELSE {}} :
                     /\ request_state' =
                            [got.state EXCEPT !.user = "user",
                                              !.is_admin = IF IsAdmin(user_groups) THEN "true"
                                                           ELSE "false"]
                     /\ IF IsAdminRoute(http_request.path) /\ ~IsAdmin(user_groups)
                        THEN /\ response' = HandleForbidden(IsApiRoute(http_request.path))
                             /\ UNCHANGED handler_calls
                        ELSE /\ handler_calls' = Append(handler_calls, request_state')
                             /\ response' = IF http_request.handler = "raises"
                                            THEN ServerError("handler")
                                            ELSE HandlerResponse
    /\ mw_pc' = "done"
    /\ UNCHANGED <<http_request, refresh_calls, notAuthVars>>

\* lines 195-197: TokenValidationError
TokenInvalid ==
    /\ mw_pc = "auth"
    /\ \E got \in {GetSessionFromCookie(http_request, request_state)} :
         /\ Truthy(got.session_data)
         /\ got.session_data.t = "dict"
         /\ ValidateToken(SessionGet(got.session_data, "access_token", ""),
                          SessionGet(got.session_data, "id_token", "")).kind = "invalid"
         /\ request_state' = got.state
    /\ response' = HandleAuthFailure(IsApiRoute(http_request.path), "invalid_session")
    /\ mw_pc' = "done"
    /\ UNCHANGED <<http_request, handler_calls, refresh_calls, notAuthVars>>

\* lines 189-193: TokenExpiredError: dispatch goes on in _handle_token_refresh
TokenExpired ==
    /\ mw_pc = "auth"
    /\ \E got \in {GetSessionFromCookie(http_request, request_state)} :
         /\ Truthy(got.session_data)
         /\ got.session_data.t = "dict"
         /\ ValidateToken(SessionGet(got.session_data, "access_token", ""),
                          SessionGet(got.session_data, "id_token", "")).kind = "expired"
         /\ request_state' = got.state
    /\ mw_pc' = "refresh"
    /\ UNCHANGED <<http_request, response, handler_calls, refresh_calls, notAuthVars>>

\* lines 336-339: no refresh token or no username in the session
RefreshImpossible ==
    /\ mw_pc = "refresh"
    /\ \/ request_state.refresh_token = ""
       \/ SessionGet(CookieLoads(http_request.cookie).value, "username", "") = ""
    /\ response' = HandleAuthFailure(IsApiRoute(http_request.path), "session_expired")
    /\ mw_pc' = "done"
    /\ UNCHANGED <<http_request, request_state, handler_calls, refresh_calls, notAuthVars>>

\* lines 341-390: the tokens are refreshed and the new access token is
\* validated; then the request goes to the handler and the response gets the
\* new cookies.  Every exception on the way, one of the handler included,
\* ends in _handle_auth_failure.
RefreshTokens ==
    /\ mw_pc = "refresh"
    /\ request_state.refresh_token # ""
    /\ SessionGet(CookieLoads(http_request.cookie).value, "username", "") # ""
    /\ refresh_calls' = refresh_calls + 1
    /\ IF /\ http_request.refreshed # "raises"
          /\ ValidateToken(http_request.refreshed, "").kind = "ok"
       THEN /\ request_state' = [request_state EXCEPT !.user = "user"]
            /\ handler_calls' = Append(handler_calls, request_state')
            /\ response' =
                   IF http_request.handler = "raises"
                   THEN HandleAuthFailure(IsApiRoute(http_request.path), "session_expired")
                   ELSE [HandlerResponse EXCEPT
                            !.set = {SESSION_COOKIE_NAME, REFRESH_COOKIE_NAME}]
       ELSE /\ response' = HandleAuthFailure(IsApiRoute(http_request.path),
                                             "session_expired")
            /\ UNCHANGED <<request_state, handler_calls>>
    /\ mw_pc' = "done"
    /\ UNCHANGED <<http_request, notAuthVars>>

NextAuth ==
    \/ PublicRoute
    \/ DevMode
    \/ NoSession
    \/ SessionNotAnObject
    \/ TokenValid
    \/ TokenInvalid
    \/ TokenExpired
    \/ RefreshImpossible
    \/ RefreshTokens

SpecAuth == InitAuth /\ [][NextAuth]_vars

\* ------------------------------------------------------------------------
\* SessionManager (chatapp/app/session/manager.py): calls made for one
\* request, whose chat-session cookie is any text
\* ------------------------------------------------------------------------
\* ChatSession; NoChatSession stands for None
ChatSession(session_id, created_at, last_activity) ==
    [none |-> FALSE, session_id |-> session_id, created_at |-> created_at,
     last_activity |-> last_activity]
NoChatSession == [none |-> TRUE, session_id |-> "", created_at |-> "", last_activity |-> ""]

\* json.loads on the text of the chat-session cookie: raise, or the value.
\* "x" is not JSON; the one-letter texts stand for objects:
\*   S {"session_id":"s1","created_at":"c1","last_activity":"a1"}
\*   i {"created_at":"c1","last_activity":"a1"}    c {"session_id":"s1","last_activity":"a1"}
\*   l {"session_id":"s1","created_at":"c1"}
ChatCookieLoads(cookie_value) ==
    CASE cookie_value = "0"    -> [raise |-> FALSE, value |-> Num(0)]
      [] cookie_value = "7"    -> [raise |-> FALSE, value |-> Num(7)]
      [] cookie_value = "[1]"  -> [raise |-> FALSE, value |-> List(<<Num(1)>>)]
      [] cookie_value = "null" -> [raise |-> FALSE, value |-> None]
      [] cookie_value = "{}"   -> [raise |-> FALSE, value |-> Dict(EmptyDict)]
      [] cookie_value = "S"    ->
            [raise |-> FALSE,
             value |-> Dict([session_id |-> "s1", created_at |-> "c1", last_activity |-> "a1"])]
      [] cookie_value = "i"    ->
            [raise |-> FALSE, value |-> Dict([created_at |-> "c1", last_activity |-> "a1"])]
      [] cookie_value = "c"    ->
            [raise |-> FALSE, value |-> Dict([session_id |-> "s1", last_activity |-> "a1"])]
      [] cookie_value = "l"    ->
            [raise |-> FALSE, value |-> Dict([session_id |-> "s1", created_at |-> "c1"])]
      [] OTHER                 -> [raise |-> TRUE, value |-> None]

\* lines 44-58: ChatSession.from_dict(data): data["session_id"] and the two
\* others; a value that is no object cannot be indexed by a string
\* (TypeError), an object without the key raises KeyError
FromDict(data) ==
    IF data.t # "dict" THEN [raise |-> "TypeError", session |-> NoChatSession]
    ELSE IF ~({"session_id", "created_at", "last_activity"} \subseteq DOMAIN data.v)
         THEN [raise |-> "KeyError", session |-> NoChatSession]
         ELSE [raise |-> "",
               session |-> ChatSession(data.v.session_id, data.v.created_at,
                                       data.v.last_activity)]

\* lines 120-137: get_session; the except clause names JSONDecodeError,
\* KeyError and ValueError
GetSession(cookie_value) ==
    IF cookie_value = "" THEN [raise |-> "", session |-> NoChatSession]
    ELSE LET loaded == ChatCookieLoads(cookie_value)
         IN  IF loaded.raise THEN [raise |-> "", session |-> NoChatSession]
             ELSE LET made == FromDict(loaded.value)
                  IN  IF made.raise \in {"KeyError", "ValueError"}
                      THEN [raise |-> "", session |-> NoChatSession]
                      ELSE made

\* lines 139-158 and 100-118: get_or_create_session at the time now, with
\* new_id the next value of uuid4: what it returns or raises, and the
\* sessions written to the cookie of the response
GetOrCreateSession(cookie_value, now, new_id) ==
    LET got == GetSession(cookie_value)
    IN  IF got.raise # "" THEN [raise |-> got.raise, session |-> NoChatSession, set |-> <<>>]
        ELSE IF ~got.session.none
             THEN LET session == [got.session EXCEPT !.last_activity = now]
                  IN  [raise |-> "", session |-> session, set |-> <<session>>]
             ELSE LET session == ChatSession(new_id, now, now)
                  IN  [raise |-> "", session |-> session, set |-> <<session>>]

ChatCookieValues == {"", "x", "0", "7", "[1]", "null", "{}", "S", "i", "c", "l"}

InitSession ==
    /\ thinking_filter = NewFilter
    /\ segs = <<>>
    /\ input = ""
    /\ out = ""
    /\ ret = [none |-> TRUE, text |-> ""]
    /\ prev_sent = 0
    /\ returned_tools = <<>>
    /\ last_get = <<>>
    /\ ops = <<"new", "new">>
    /\ IdleStream
    /\ IdleDecoder
    /\ IdleStorage
    /\ IdleRequests
    /\ IdleAuth
    /\ IdleAgent
    /\ chat_cookie \in ChatCookieValues
    /\ session_calls = <<>>

\* the variables no session manager action changes
notSessionVars == <<thinking_filter, filterVars, clientVars, orchVars, decoderVars,
                    storageVars, concVars, authVars, agentVars>>

\* a handler calls get_session(request)
CallGetSession ==
    /\ Len(session_calls) < MaxSessionCalls
    /\ \E r \in {GetSession(chat_cookie)} :
           session_calls' = Append(session_calls,
               [op |-> "get_session", raise |-> r.raise, session |-> r.session,
                set |-> <<>>])
    /\ UNCHANGED <<chat_cookie, notSessionVars>>

\* a handler calls get_or_create_session(request, response)
CallGetOrCreateSession(now, new_id) ==
    /\ Len(session_calls) < MaxSessionCalls
    /\ \E r \in {GetOrCreateSession(chat_cookie, now, new_id)} :
           session_calls' = Append(session_calls,
               [op |-> "get_or_create_session", raise |-> r.raise, session |-> r.session,
                set |-> r.set])
    /\ UNCHANGED <<chat_cookie, notSessionVars>>

NextSession ==
    \/ CallGetSession
    \/ \E now \in {"t1", "t2"}, new_id \in {"u1", "u2"} : CallGetOrCreateSession(now, new_id)

SpecSession == InitSession /\ [][NextSession]_vars

\* ------------------------------------------------------------------------
\* The agent's entry point (agent/my_agent.py, invoke) with the guardrails
\* hook (agent/guardrails.py) in one invocation.  The agent's stream is a
\* sequence of events: "delta" (an event without messages), "toolUse" (an
\* event whose messages hold an assistant toolUse block with id "a") and
\* "toolResult" (one whose messages hold a user toolResult block for "a").
\* ------------------------------------------------------------------------
AgentEvents == {"delta", "toolUse", "toolResult"}

\* what invoke yields: an event of the agent as it is, a tool_use or
\* tool_result dict made from it, a violation, or the error line
Original(event)   == [type |-> "event", of |-> event, source |-> ""]
ToolUseDict(id)   == [type |-> "tool_use", of |-> id, source |-> ""]
ToolResultDict(id) == [type |-> "tool_result", of |-> id, source |-> ""]
Violation(source) == [type |-> "guardrail", of |-> "GUARDRAIL_INTERVENED", source |-> source]
ErrorLine         == [type |-> "error", of |-> "", source |-> ""]

\* what ApplyGuardrail may answer: an action, or an exception
GuardrailOutcomes == {"NONE", "GUARDRAIL_INTERVENED", "ClientError", "Exception"}

\* guardrails.py lines 112-182: evaluate_content on the hook's list: a
\* violation is appended when the guardrail intervened; an exception of the
\* call is logged and nothing is appended
EvaluateContent(pending, enabled, source, outcome) ==
    IF ~enabled THEN pending
    ELSE IF outcome = "GUARDRAIL_INTERVENED" THEN Append(pending, Violation(source))
    ELSE pending

\* my_agent.py lines 339-382: what the loop body yields for one event of the
\* agent, and the ids seen afterwards
InvokeYields(event, seen) ==
    CASE event = "toolUse" ->
            IF "a" \in seen
            THEN [out |-> <<Original(event)>>, seen |-> seen]
            ELSE [out |-> <<ToolUseDict("a"), Original(event)>>, seen |-> seen \cup {"a"}]
      [] event = "toolResult" ->
            [out |-> <<ToolResultDict("a"), Original(event)>>, seen |-> seen]
      [] OTHER -> [out |-> <<Original(event)>>, seen |-> seen]

InitAgent ==
    /\ thinking_filter = NewFilter
    /\ segs = <<>>
    /\ input = ""
    /\ out = ""
    /\ ret = [none |-> TRUE, text |-> ""]
    /\ prev_sent = 0
    /\ returned_tools = <<>>
    /\ last_get = <<>>
    /\ ops = <<"new", "new">>
    /\ IdleStream
    /\ IdleDecoder
    /\ IdleStorage
    /\ IdleRequests
    /\ IdleAuth
    /\ IdleSession
    /\ agent_pc = "start"
    /\ agent_stream \in UNION {[1..n -> AgentEvents] : n \in 0..MaxAgentEvents}
    /\ guardrail_enabled \in BOOLEAN
    /\ pending_violations = <<>>
    /\ recorded = <<>>
    /\ seen_tool_uses = {}
    /\ agent_out = <<>>

\* the variables no agent action changes
notAgentVars == <<thinking_filter, filterVars, clientVars, orchVars, decoderVars,
                  storageVars, concVars, authVars, sessionVars>>

\* guardrails.py lines 252-303: the user's message is added and
\* check_user_input evaluates it
UserMessageAdded(outcome) ==
    /\ agent_pc = "start"
    /\ \E pending \in {EvaluateContent(pending_violations, guardrail_enabled, "INPUT",
                                       outcome)} :
           /\ pending_violations' = pending
           /\ recorded' = recorded \o SubSeq(pending, Len(pending_violations) + 1,
                                             Len(pending))
    /\ agent_pc' = "streaming"
    /\ UNCHANGED <<agent_stream, guardrail_enabled, seen_tool_uses, agent_out, notAgentVars>>

\* my_agent.py lines 337-382: the next event of the agent's stream
AgentEvent ==
    /\ agent_pc = "streaming"
    /\ agent_stream # <<>>
    /\ \E y \in {InvokeYields(Head(agent_stream), seen_tool_uses)} :
           /\ agent_out' = agent_out \o y.out
           /\ seen_tool_uses' = y.seen
    /\ agent_stream' = Tail(agent_stream)
    /\ UNCHANGED <<agent_pc, guardrail_enabled, pending_violations, recorded, notAgentVars>>

\* guardrails.py lines 305-358: the invocation is over and
\* check_assistant_response evaluates the answer; the agent's stream ends
AfterInvocation(outcome) ==
    /\ agent_pc = "streaming"
    /\ agent_stream = <<>>
    /\ \E pending \in {EvaluateContent(pending_violations, guardrail_enabled, "OUTPUT",
                                       outcome)} :
           /\ pending_violations' = pending
           /\ recorded' = recorded \o SubSeq(pending, Len(pending_violations) + 1,
                                             Len(pending))
    /\ agent_pc' = "ended"
    /\ UNCHANGED <<agent_stream, guardrail_enabled, seen_tool_uses, agent_out, notAgentVars>>

\* my_agent.py lines 384-393 and guardrails.py lines 360-371: the violations
\* are taken from the hook and yielded
YieldViolations ==
    /\ agent_pc = "ended"
    /\ agent_out' = agent_out \o pending_violations
    /\ pending_violations' = <<>>
    /\ agent_pc' = "done"
    /\ UNCHANGED <<agent_stream, guardrail_enabled, recorded, seen_tool_uses, notAgentVars>>

\* my_agent.py lines 395-398: the agent's stream raises: the error line is
\* yielded and the exception raised again
StreamFails ==
    /\ agent_pc = "streaming"
    /\ agent_out' = Append(agent_out, ErrorLine)
    /\ agent_pc' = "failed"
    /\ UNCHANGED <<agent_stream, guardrail_enabled, pending_violations, recorded,
                   seen_tool_uses, notAgentVars>>

NextAgent ==
    \/ \E outcome \in GuardrailOutcomes : UserMessageAdded(outcome)
    \/ AgentEvent
    \/ \E outcome \in GuardrailOutcomes : AfterInvocation(outcome)
    \/ YieldViolations
    \/ StreamFails

SpecAgent == InitAgent /\ [][NextAgent]_vars

\* ------------------------------------------------------------------------
\* Properties of the filter (checked under SpecFilter)
\* ------------------------------------------------------------------------
\* the visible output of a fresh filter given s in a single call
OneCall(s) == FilterCall(NewFilter, s).ret.text

\* what a tool segment holds, read off the segment itself
SegToolName(k) == IF k = "toolp" THEN "g" ELSE "f"
SegParams(k)   ==
    CASE k = "toolp"  -> "<__parameter=p>v</__parameter>"
      [] k = "toolHa" -> "Ha"
      [] k = "toolaG" -> "aG"
      [] OTHER        -> "x"
SegToolId(k)   == ToolId(SegToolName(k), SegParams(k))

AppearsOnce(k) == \A j \in 1..Len(segs) : j # k => segs[j] # segs[k]

CountId(tools, id) == Cardinality({i \in 1..Len(tools) : tools[i].tool_use_id = id})

\* C1 (as claimed): while the text fed so far ends inside a markup block (an
\* unclosed <thinking> or <__function=...> block, or a proper prefix of its
\* opening tag), the fragment from the block's "<" to the end of the text
\* occurs nowhere in the concatenation of the strings returned so far.
C1_PartialMarkupWithheld ==
    \A k \in 1..Len(segs) :
        (~IsPlain(segs[k]) /\ SegStart(k) <= Fed /\ Fed < SegEnd(k))
            => IndexOf(out, SubSeq(input, SegStart(k), Fed), 1) = 0

\* C2 (as claimed): once the whole text has been fed, in whatever pieces, the
\* cumulative output equals the output of a fresh filter given the text in
\* one call.
C2_ChunkInvariance ==
    Fed = Len(input) => out = OneCall(input)

\* C3 (as claimed): once a text made of plain segments and complete blocks has
\* been fed, the cumulative output is the plain segments in their order, with
\* every block removed and nothing lost.
C3_MarkupRemoved ==
    Fed = Len(input) => out = PlainText(segs)

C5_CursorMonotone ==
    \A f \in {Filtered(thinking_filter.full_content)} :
        /\ prev_sent <= thinking_filter.sent_length
        /\ Len(out) = thinking_filter.sent_length
        /\ IF Len(f) > prev_sent
           THEN /\ ~ret.none
                /\ thinking_filter.sent_length = Len(f)
                /\ ret.text = SubSeq(f, prev_sent + 1, Len(f))
           ELSE /\ ret.none
                /\ thinking_filter.sent_length = prev_sent

\* C5 witness: a call that returned new text behind text returned before
C5_Witness ==
    /\ ~ret.none
    /\ prev_sent > 0
    /\ thinking_filter.sent_length > prev_sent

\* ------------------------------------------------------------------------
\* Properties of the stream (checked under SpecStream)
\* ------------------------------------------------------------------------
\* every event invoke_stream has yielded or is about to yield
Emitted == yielded \o pending_events

\* the positions of the events of a class in a sequence of events
Where(events, type) == {i \in 1..Len(events) : IsA(events[i], type)}

\* invoke_stream has run to completion and its consumer has taken every event
Completed == pc = "closed" /\ pending_events = <<>> /\ ~propagated

\* _stream_chat_response is over: it returned, or an exception left it
StreamEnded == orch_pc \in {"finished", "raised"}

\* C6 (as claimed): whenever _stream_chat_response has reached the end of the
\* stream, by a Done, by an Error event or by an exception, the usage task
\* has been created exactly once, and a usage task is only ever created when
\* every event of the stream has been yielded.
C6_MetricsDispatchedOnce ==
    /\ StreamEnded => Len(usage_tasks) = 1
    /\ usage_tasks # <<>> => (pc = "closed" /\ pending_events = <<>>)

\* the tool a ToolUseEvent is counted under (chat.py line 157)
ToolOf(event) == Or(event.tool_name, Str("unknown"))

\* the stream of C7: the tool uses carry pairwise distinct ids, and every
\* tool result resolves a tool use that came before it and that no other
\* result resolves
DistinctMatched(events) ==
    /\ \A i, j \in Where(events, "tool_use") :
          i # j => events[i].tool_use_id # events[j].tool_use_id
    /\ \A j \in Where(events, "tool_result") :
          /\ \E i \in Where(events, "tool_use") :
                i < j /\ events[i].tool_use_id = events[j].tool_use_id
          /\ \A k \in Where(events, "tool_result") :
                k # j => events[k].tool_use_id # events[j].tool_use_id

\* the uses of tool n, those of them without a result, and the results of
\* tool n that read as errors
UsesOf(events, n) == {i \in Where(events, "tool_use") : ToolOf(events[i]) = n}
Unresolved(events, n) ==
    {i \in UsesOf(events, n) :
        \A j \in Where(events, "tool_result") :
            events[j].tool_use_id # events[i].tool_use_id}
ErrorResults(events, n) ==
    {j \in Where(events, "tool_result") :
        /\ \E i \in UsesOf(events, n) : events[i].tool_use_id = events[j].tool_use_id
        /\ IsErrorResult(events[j].tool_result, events[j].status).value}

\* C7 (as claimed): when _stream_chat_response has reached the end of a
\* stream whose N tool uses carry distinct ids and whose M results each
\* resolve one of them, metrics have been finalised and handed to the usage
\* task, and they hold, for every tool, as many calls as the stream had uses
\* of it (N in all), and an error_count of its results that read as errors
\* plus one for each of its unresolved uses; and every SSE frame is the frame
\* of an event invoke_stream yielded, so no Error frame was made for an
\* unresolved call.
C7_MetricsAccountingCloses ==
    (StreamEnded /\ DistinctMatched(yielded) /\ Where(yielded, "tool_use") # {})
    => /\ Len(usage_tasks) = 1
       /\ \A tm \in {usage_tasks[1].toolMetrics} :
             /\ DOMAIN tm = {ToolOf(yielded[i]) : i \in Where(yielded, "tool_use")}
             /\ \A n \in DOMAIN tm :
                   /\ tm[n].call_count = Cardinality(UsesOf(yielded, n))
                   /\ tm[n].error_count = Cardinality(ErrorResults(yielded, n))
                                          + Cardinality(Unresolved(yielded, n))
                   /\ tm[n].success_count + tm[n].error_count = tm[n].call_count
       /\ sse = [i \in 1..Len(yielded) |-> ToSseFormat(yielded[i])]

\* C8: once an exception has been raised in invoke_stream, it has not left
\* the generator, the generator is closed, and among its events there is
\* exactly one Error event, which is the last one, and no Done.
C8_ExceptionBecomesOneError ==
    raised # <<>>
    => /\ ~propagated
       /\ pc = "closed"
       /\ Len(raised) = 1
       /\ Cardinality(Where(Emitted, "error")) = 1
       /\ IsA(Emitted[Len(Emitted)], "error")
       /\ Where(Emitted, "done") = {}

\* C8 witness: an exception in the middle of the stream, its Error event
\* yielded behind earlier events
C8_Witness ==
    /\ raised # <<>>
    /\ pending_events = <<>>
    /\ Len(yielded) >= 2
    /\ IsA(yielded[Len(yielded)], "error")

\* C9 (as claimed): no exception ever leaves _stream_chat_response.
C9_OrchestratorNeverRaises ==
    orch_pc # "raised"

\* C10: a Done or an Error event is only ever the last event of the
\* invocation, so there is at most one of them; and when invoke_stream has
\* run to completion there is one: a Done if the chunk loop ran to the end of
\* the upstream and no exception was raised, an Error if not.
C10_OneTerminalEvent ==
    /\ \A i \in Where(Emitted, "done") \cup Where(Emitted, "error") : i = Len(Emitted)
    /\ Completed =>
          /\ yielded # <<>>
          /\ IF read_to_end /\ raised = <<>>
             THEN IsA(yielded[Len(yielded)], "done")
             ELSE IsA(yielded[Len(yielded)], "error")

\* C10 witness: a completed invocation that ended with Done behind other events
C10_Witness ==
    /\ Completed
    /\ Len(yielded) >= 2
    /\ IsA(yielded[Len(yielded)], "done")

\* ------------------------------------------------------------------------
\* Properties of malformed lines (checked under SpecMalformed)
\* ------------------------------------------------------------------------
\* the events yielded for the lines parsed so far, in order
RECURSIVE AllEvents(_)
AllEvents(ps) == IF ps = <<>> THEN <<>> ELSE Head(ps).events \o AllEvents(Tail(ps))

\* the lines parsed so far that are not malformed
RECURSIVE WellFormed(_)
WellFormed(ps) ==
    IF ps = <<>> THEN <<>>
    ELSE (IF Head(ps).line \in MalformedCodes THEN <<>> ELSE <<Head(ps).line>>)
         \o WellFormed(Tail(ps))

\* the events invoke_stream yields for a sequence of lines, from filter f on
RECURSIVE RunLines(_, _)
RunLines(ls, f) ==
    IF ls = <<>> THEN <<>>
    ELSE LET r == LineEvents(Head(ls), f, 1)
         IN  r.events \o RunLines(Tail(ls), r.f)

\* C11 (as claimed): a malformed line yields no event; the events yielded for
\* the lines parsed so far are those of the same lines with the malformed ones
\* left out; no Error event is yielded unless an exception was raised by the
\* transport; and the stream is not aborted by an exception.
C11_MalformedLineSkipped ==
    /\ \A i \in 1..Len(parsed) :
          parsed[i].line \in MalformedCodes => parsed[i].events = <<>>
    /\ AllEvents(parsed) = RunLines(WellFormed(parsed), NewFilter)
    /\ (parsed # <<>> /\ raised = <<>>) => Where(Emitted, "error") = {}
    /\ orch_pc # "raised"

\* ------------------------------------------------------------------------
\* Properties of the line shapes (checked under SpecShapes)
\* ------------------------------------------------------------------------
\* The shapes a line of the model matches, read off its JSON text: shape is
\* the place of the shape in the order 1 content-delta text, 2 TextStreamEvent
\* text, 3 flattened tool_use, 4 flattened tool_result, 5 guardrail, 6 nested
\* content block, 7 final aggregate message, 8 legacy message, 9 top-level
\* usage/metrics, 10 legacy event.metadata; type is the class of event the
\* shape stands for ("text": a Message, "none": skipped); val is the text of
\* a text shape that lies outside markup, or the inputTokens of a metadata
\* shape.
Shape(shape, type, val) == [shape |-> shape, type |-> type, val |-> val]

ShapeTable(code) ==
    CASE code = "t" -> {Shape(1, "text", "ok")}
      [] code = "T" -> {Shape(2, "text", "ok")}
      [] code = "h" -> {Shape(1, "text", "")}
      [] code = "u" -> {Shape(3, "tool_use", "")}
      [] code = "r" -> {Shape(4, "tool_result", "")}
      [] code = "g" -> {Shape(5, "guardrail", "")}
      [] code = "c" -> {Shape(6, "tool_use", "")}
      [] code = "d" -> {Shape(6, "tool_result", "")}
      [] code = "f" -> {Shape(7, "none", "")}
      [] code = "y" -> {Shape(8, "text", "ok")}
      [] code = "m" -> {Shape(9, "metadata", "3")}
      [] code = "v" -> {Shape(10, "metadata", "5")}
      [] code = "A" -> {Shape(1, "text", "ok"), Shape(3, "tool_use", "")}
      [] code = "J" -> {Shape(1, "text", "ok"), Shape(2, "text", "Hi")}
      [] code = "B" -> {Shape(2, "text", "ok"), Shape(9, "metadata", "3")}
      [] code = "C" -> {Shape(3, "tool_use", ""), Shape(6, "tool_result", "")}
      [] code = "D" -> {Shape(4, "tool_result", ""), Shape(9, "metadata", "3")}
      [] code = "E" -> {Shape(5, "guardrail", ""), Shape(6, "tool_use", "")}
      [] code = "F" -> {Shape(6, "tool_use", ""), Shape(7, "none", "")}
      [] code = "G" -> {Shape(7, "none", ""), Shape(8, "text", "ok")}
      [] code = "H" -> {Shape(8, "text", "ok"), Shape(9, "metadata", "3")}
      [] code = "I" -> {Shape(9, "metadata", "3"), Shape(10, "metadata", "5")}
      [] OTHER -> {}

\* the shapes of a line: those of its JSON text, with or without the prefix
ShapesOf(line) ==
    ShapeTable(IF StartsWith(line, "data: ") THEN From(line, 7) ELSE line)

\* the earliest of the shapes a line matches
Earliest(line) ==
    CHOOSE e \in ShapesOf(line) : \A e2 \in ShapesOf(line) : e.shape <= e2.shape

\* what _parse_ndjson_line returned (event: no event or one) is an event of
\* the class shape e stands for, made from the fields of that shape
IsEventOf(event, e) ==
    /\ Len(event) = 1
    /\ CASE e.type = "text"     -> IsA(event[1], "message")
                                   /\ (e.val # "" => event[1].content = Str(e.val))
         [] e.type = "metadata" -> IsA(event[1], "metadata")
                                   /\ ToString(event[1].data.v.inputTokens.v) = e.val
         [] OTHER               -> IsA(event[1], e.type)

Intervened(event) ==
    event.type = Str("guardrail") /\ event.action = Str("GUARDRAIL_INTERVENED")

\* C13: at every moment the violation tasks created are exactly the
\* GuardrailEvents with action GUARDRAIL_INTERVENED taken from invoke_stream
\* so far, one task each and in their order (so a task exists as soon as its
\* event has been taken, whatever the stream does later, and no other
\* GuardrailEvent has a task); every GuardrailEvent taken has its SSE frame;
\* and every event taken has its frame, but for the one on which the body of
\* the loop raised.
C13_ViolationDispatchedAtOnce ==
    /\ violation_tasks = SelectSeq(yielded, Intervened)
    /\ \A i \in Where(yielded, "guardrail") :
          i <= Len(sse) /\ sse[i] = ToSseFormat(yielded[i])
    /\ \A i \in 1..Len(sse) : sse[i] = ToSseFormat(yielded[i])
    /\ Len(sse) = Len(yielded) - (IF orch_pc = "raised" THEN 1 ELSE 0)

\* C13 witness: a stream with an intervention and a guardrail event of
\* another action ended with an Error event; one task exists
C13_Witness ==
    /\ Len(violation_tasks) = 1
    /\ \E i \in Where(yielded, "guardrail") : ~Intervened(yielded[i])
    /\ IsA(yielded[Len(yielded)], "error")
    /\ orch_pc = "finished"

\* ------------------------------------------------------------------------
\* Properties of the metrics (checked under SpecMetadata)
\* ------------------------------------------------------------------------
\* a metrics dict without its per-tool counters
TokenPart(metrics) == [k \in DOMAIN metrics \ {"toolMetrics"} |-> metrics[k]]

\* the data of the last MetadataEvent among the events, an empty dict if
\* there is none
LastMetadata(events) ==
    IF Where(events, "metadata") = {} THEN EmptyDict
    ELSE events[CHOOSE i \in Where(events, "metadata") :
                    \A j \in Where(events, "metadata") : j <= i].data.v

\* C14: at every moment the token and latency values of the accumulated
\* metrics are the data of the last MetadataEvent taken so far, key for key
\* (nothing of an earlier MetadataEvent is left), and so are those of the
\* metrics handed to the usage task; and the metrics of the usage task hold,
\* for each tool used in the stream, a counter with as many calls as the
\* stream had uses of it, before or after the MetadataEvents.
C14_MetadataOverwrites ==
    /\ TokenPart(accumulated_metrics) = LastMetadata(yielded)
    /\ \A i \in 1..Len(usage_tasks) :
          /\ TokenPart(usage_tasks[i]) = LastMetadata(yielded)
          /\ \A j \in Where(yielded, "tool_use") :
                /\ "toolMetrics" \in DOMAIN usage_tasks[i]
                /\ ToolOf(yielded[j]) \in DOMAIN usage_tasks[i].toolMetrics
                /\ usage_tasks[i].toolMetrics[ToolOf(yielded[j])].call_count
                      = Cardinality(UsesOf(yielded, ToolOf(yielded[j])))

\* C14 witness: a usage task of a stream with two MetadataEvents of different
\* data and a tool use
C14_Witness ==
    /\ Len(usage_tasks) = 1
    /\ \E i, j \in Where(yielded, "metadata") : i < j /\ yielded[i].data # yielded[j].data
    /\ Where(yielded, "tool_use") # {}

\* ------------------------------------------------------------------------
\* Properties of the tool-call ids (checked under SpecStream)
\* ------------------------------------------------------------------------
\* the distinct ids the uses of tool n carry
IdsOf(events, n) ==
    {events[i].tool_use_id :
        i \in {j \in Where(events, "tool_use") :
                  ToolOf(events[j]).t = n.t /\ ToolOf(events[j]) = n}}

\* C15 (as claimed): at every moment the call_count of a tool is the number
\* of distinct tool_use_ids its ToolUseEvents have carried so far, and every
\* pending entry stands for one of the ids.
C15_ToolCallIdsDeduplicated ==
    /\ \A n \in DOMAIN tool_usage_counts :
          tool_usage_counts[n].call_count = Cardinality(IdsOf(yielded, n))
    /\ \A id \in DOMAIN pending_tool_uses :
          \E i \in Where(yielded, "tool_use") : yielded[i].tool_use_id = id

\* ------------------------------------------------------------------------
\* Properties of the order of events (checked under SpecStream)
\* ------------------------------------------------------------------------
\* an event made from a tool call the filter extracted (client.py 427-432)
IsExtracted(event) ==
    IsA(event, "tool_use") /\ StartsWith(event.tool_use_id.v, "nova-")

\* C16 (as claimed): the events of invoke_stream are, in order, the events
\* of the lines parsed so far, line after line, followed by nothing but a
\* terminal event; the events of one line are the event the parser returned
\* for it, if any, followed by nothing but the tool calls extracted while it
\* was parsed; and the SSE frames are the frames of the events invoke_stream
\* yielded, one each and in the same order.
C16_OrderPreserved ==
    /\ \A all \in {AllEvents(parsed)} :
          /\ Len(all) <= Len(Emitted)
          /\ SubSeq(Emitted, 1, Len(all)) = all
          /\ \A i \in Len(all) + 1..Len(Emitted) :
                IsA(Emitted[i], "done") \/ IsA(Emitted[i], "error")
    /\ \A i \in 1..Len(parsed) :
          /\ SubSeq(parsed[i].events, 1, Len(parsed[i].event)) = parsed[i].event
          /\ \A j \in Len(parsed[i].event) + 1..Len(parsed[i].events) :
                IsExtracted(parsed[i].events[j])
    /\ sse = [i \in 1..Len(yielded) |-> ToSseFormat(yielded[i])]

\* ------------------------------------------------------------------------
\* Properties of the line reassembly (checked under SpecChunks)
\* ------------------------------------------------------------------------
NotBlank(line) == ~IsBlank(line)

\* the lines handed to _parse_ndjson_line so far
ParsedLines == [i \in 1..Len(parsed) |-> parsed[i].line]

\* the part of the response read so far
Consumed == SubSeq(body, 1, Len(body) - Len(upstream))

\* a sequence without its last element
Front(s) == SubSeq(s, 1, Len(s) - 1)

\* C17: however the response is cut into chunks: while the chunk loop runs,
\* the buffer holds what was read behind the last newline, and the lines
\* parsed so far followed by the non-blank lines of the current chunk still
\* to parse are the non-blank lines that were read together with their
\* newline; when the response has been read to its end, the lines that were
\* parsed are the non-blank pieces of the whole response between newlines
\* (the last piece included), the events are those of these lines parsed one
\* after the other, and Done follows them.
C17_ChunkIndependentLines ==
    /\ pc = "open" =>
          /\ buffer = Split(Consumed)[Len(Split(Consumed))]
          /\ ParsedLines \o SelectSeq(lines, NotBlank)
                = SelectSeq(Front(Split(Consumed)), NotBlank)
    /\ read_to_end =>
          /\ ParsedLines = SelectSeq(Split(body), NotBlank)
          /\ Emitted = RunLines(SelectSeq(Split(body), NotBlank), NewFilter) \o <<DoneEvent>>

\* C17 witness: a chunk ended inside a line, behind a line that was parsed:
\* the piece read so far waits in the buffer
C17_Witness ==
    /\ pc = "open"
    /\ parsed # <<>>
    /\ buffer # ""
    /\ upstream # "" /\ SubSeq(upstream, 1, 1) # "\n"


\* ------------------------------------------------------------------------
\* Properties of the incremental decoder (checked under SpecDecoder)
\* ------------------------------------------------------------------------
\* the outputs of the decode() calls so far, joined
RECURSIVE JoinOutputs(_)
JoinOutputs(outs) == IF outs = <<>> THEN <<>> ELSE Head(outs) \o JoinOutputs(Tail(outs))

\* the bytes given to the decoder so far
FedBytes == SubSeq(stream_bytes, 1, fed)

\* C18: however the bytes are cut into decode() calls, also inside a
\* character, the joined outputs of the calls are what one call on all the
\* bytes given so far returns, the bytes the decoder holds back are exactly
\* the bytes one call would leave unconsumed (none is dropped between
\* calls), and after the final flush the joined outputs are the
\* single-call decoding of the whole byte sequence.
C18_SplitDecodeEqualsWhole ==
    /\ ~flushed =>
           Utf8Decode(FedBytes, FALSE) =
               [out |-> JoinOutputs(decoded), rest |-> utf8_decoder.buffer]
    /\ flushed =>
           /\ JoinOutputs(decoded) = Utf8Decode(stream_bytes, TRUE).out
           /\ utf8_decoder.buffer = <<>>

\* a three-byte character cut after its first byte, a second call with the
\* rest and one byte of a character that is never completed, and the flush
C18_Witness ==
    /\ flushed
    /\ stream_bytes = <<226, 130, 172, 195>>
    /\ decoded = << <<>>, <<8364>>, <<ReplacementChar>> >>


\* ------------------------------------------------------------------------
\* Properties of the states of an invocation (checked under SpecStream)
\* ------------------------------------------------------------------------
\* OPEN, DRAINING and CLOSED: bytes may still come; the upstream has been
\* read to its end and what is left is being delivered; _stream_chat_response
\* is over
PhaseRank == IF StreamEnded THEN 2 ELSE IF read_to_end THEN 1 ELSE 0

\* the SSE frame of a Done or of an Error event
IsTerminalFrame(frame) == frame.json.type \in {Str("done"), Str("error")}

\* C19 (as claimed): when the invocation is CLOSED, it got there behind a Done
\* frame or behind one Error frame, an Error frame if an exception was raised
\* anywhere, and the metrics have been dispatched.
C19_ClosedBehindTerminalFrameAndDispatch ==
    StreamEnded =>
        /\ sse # <<>>
        /\ IsTerminalFrame(sse[Len(sse)])
        /\ Cardinality({i \in 1..Len(sse) : IsTerminalFrame(sse[i])}) = 1
        /\ raised # <<>> => sse[Len(sse)].json.type = Str("error")
        /\ usage_tasks # <<>>


\* ------------------------------------------------------------------------
\* Properties of the background storage (checked under SpecStorage)
\* ------------------------------------------------------------------------
\* the SSE frames of a sequence of events
FramesOf(events) == [i \in 1..Len(events) |-> ToSseFormat(events[i])]

Unmatched(event) ==
    /\ IsA(event, "tool_result")
    /\ ~Hashable(event.tool_use_id) \/ event.tool_use_id \notin DOMAIN pending_tool_uses

\* the step in which _stream_chat_response takes such an event
TakesUnmatched ==
    /\ orch_pc = "running"
    /\ pending_events # <<>>
    /\ Unmatched(Head(pending_events))
    /\ yielded' = Append(yielded, Head(pending_events))

\* every tool has at most as many results counted as uses
AtMostOneUnitPerUse ==
    \A n \in DOMAIN tool_usage_counts :
        tool_usage_counts[n].success_count + tool_usage_counts[n].error_count
            <= tool_usage_counts[n].call_count

\* C26 (as claimed): the step that takes a ToolResultEvent matching no pending
\* tool use changes no counter and not the pending map, and the event's frame
\* is sent; and no tool ever has more results counted than uses.
C26_UnmatchedResultIgnored ==
    /\ []AtMostOneUnitPerUse
    /\ [][TakesUnmatched =>
            /\ tool_usage_counts' = tool_usage_counts
            /\ pending_tool_uses' = pending_tool_uses
            /\ sse' = Append(sse, ToSseFormat(Head(pending_events)))]_vars


\* C27 (as claimed): when _stream_chat_response has finalised the metrics,
\* every tool's call_count is its success_count plus its error_count.
C27_CountsBalanceAtEnd ==
    orch_pc = "finished" =>
        \A n \in DOMAIN tool_usage_counts :
            tool_usage_counts[n].call_count =
                tool_usage_counts[n].success_count + tool_usage_counts[n].error_count


\* ------------------------------------------------------------------------
\* Properties of the agent's error line (checked under SpecInBand)
\* ------------------------------------------------------------------------
\* the classes of event _parse_ndjson_line may return
ParserTypes == {Str("message"), Str("tool_use"), Str("tool_result"),
                Str("guardrail"), Str("metadata")}

\* the lines that carry the agent's "error": true
ErrorLines == {"Z", "P"}

\* C30: every event _parse_ndjson_line returned is a message, tool_use,
\* tool_result, guardrail or metadata event, and a message never has empty
\* content; the agent's error line gave no event at all; a Done is among the
\* events exactly when the chunk loop ran to the end of the upstream, where it
\* is the last event, and an Error only when invoke_stream ended before that.
C30_ParserNeverTerminal ==
    /\ \A i \in 1..Len(parsed) :
          /\ Len(parsed[i].event) <= 1
          /\ \A j \in 1..Len(parsed[i].event) :
                /\ parsed[i].event[j].type \in ParserTypes
                /\ IsA(parsed[i].event[j], "message") =>
                      /\ parsed[i].event[j].content.t = "str"
                      /\ parsed[i].event[j].content.v # ""
          /\ parsed[i].line \in ErrorLines => parsed[i].events = <<>>
    /\ read_to_end <=> Where(Emitted, "done") # {}
    /\ read_to_end => /\ IsA(Emitted[Len(Emitted)], "done")
                      /\ Where(Emitted, "error") = {}
    /\ Where(Emitted, "error") # {} => pc = "closed" /\ ~read_to_end

\* C30 witness: a response with text and, behind it, the agent's error line
\* was read to its end: a message and Done, and nothing for the error line
C30_Witness ==
    /\ read_to_end
    /\ pending_events = <<>>
    /\ Len(parsed) = 2
    /\ parsed[2].line \in ErrorLines
    /\ Len(yielded) = 2
    /\ IsA(yielded[1], "message")
    /\ IsA(yielded[2], "done")

\* ------------------------------------------------------------------------
\* C29
\* ------------------------------------------------------------------------
\* the tool calls the filter has handed out or holds queued
AllExtracted == returned_tools \o thinking_filter.extracted_tools

\* the segments that hold a complete tool-call block
HoldsBlock(k) == k \in {"tool", "toolp", "thinktool", "toolHa", "toolaG"}

\* last position of the tool-call block of segment k
BlockEnd(k) ==
    IF segs[k] = "thinktool" THEN SegEnd(k) - Len("</thinking>") ELSE SegEnd(k)

\* C29: the ids of the tool calls extracted in one stream are pairwise
\* distinct; every complete block fed so far, visible or inside a <thinking>
\* block, has exactly one extracted call under the id made of its tool name
\* and the hash of its parameter block, so two blocks with the same name and
\* the same parameter block share a single call; and the name of a tool that
\* stands inside a <thinking> block only never shows in the text returned.
C29_IdsDistinct ==
    /\ \A i, j \in 1..Len(AllExtracted) :
           i # j => AllExtracted[i].tool_use_id # AllExtracted[j].tool_use_id
    /\ \A k \in 1..Len(segs) :
           (HoldsBlock(segs[k]) /\ BlockEnd(k) <= Fed)
               => CountId(AllExtracted, SegToolId(segs[k])) = 1
    /\ \A i \in 1..Len(AllExtracted) :
           \E k \in 1..Len(segs) :
               /\ HoldsBlock(segs[k]) /\ BlockEnd(k) <= Fed
               /\ AllExtracted[i].tool_use_id = SegToolId(segs[k])
    /\ (\A k \in 1..Len(segs) : segs[k] \in {"hi", "thinktool"})
           => IndexOf(out, "__function", 1) = 0

\* C29 witness: the same block once inside a <thinking> block and once
\* outside, all fed and drained: one call was returned, and the reasoning
\* stayed out of the text
C29_Witness ==
    /\ segs = <<"thinktool", "tool">>
    /\ Fed = Len(input)
    /\ ops[2] = "get"
    /\ Len(returned_tools) = 1
    /\ returned_tools[1].tool_use_id = ToolId("f", "x")
    /\ thinking_filter.extracted_tools = <<>>

\* ------------------------------------------------------------------------
\* C28
\* ------------------------------------------------------------------------
\* the counters and the pending map after the body of the loop has run on
\* the given events and nothing else
RECURSIVE LoopOver(_, _, _)
LoopOver(events, counts, pending) ==
    IF events = <<>> THEN [counts |-> counts, pending |-> pending]
    ELSE LET r == OnEvent(counts, pending, Head(events))
         IN  LoopOver(Tail(events), r.counts, r.pending)

\* C28: after the consumer has stopped pulling, the finalisation has not
\* run: no usage task was created, the metrics hold no toolMetrics, the
\* counters and the pending map are what the loop body left (no pending
\* tool use was counted as an error), and the violation tasks are those of
\* the intervening guardrail events forwarded, each created when its event
\* was forwarded.
C28_DisconnectSkipsFinalisation ==
    orch_pc = "cancelled" =>
        /\ usage_tasks = <<>>
        /\ "toolMetrics" \notin DOMAIN accumulated_metrics
        /\ LoopOver(yielded, EmptyDict, EmptyDict) =
               [counts |-> tool_usage_counts, pending |-> pending_tool_uses]
        /\ violation_tasks = SelectSeq(yielded, IsViolation)

\* C28 witness: the consumer left before invoke_stream had seen the end of
\* the upstream, with a tool use pending, metrics received and a violation
\* dispatched
C28_Witness ==
    /\ orch_pc = "cancelled"
    /\ pc = "open" /\ ~read_to_end
    /\ DOMAIN pending_tool_uses # {}
    /\ DOMAIN accumulated_metrics # {}
    /\ violation_tasks # <<>>
    /\ \E n \in DOMAIN tool_usage_counts :
           /\ tool_usage_counts[n].call_count = 1
           /\ tool_usage_counts[n].error_count = 0

\* ------------------------------------------------------------------------
\* C21
\* ------------------------------------------------------------------------
\* what the consumer and the storage see of a request
Outcome(rq) ==
    [orch_pc |-> rq.orch_pc, sse |-> rq.sse, usage_tasks |-> rq.usage_tasks,
     violation_tasks |-> rq.violation_tasks]

\* the loop body on the events of one line, until it raises
RECURSIVE BodyOver(_, _)
BodyOver(rq, events) ==
    IF events = <<>> \/ rq.orch_pc # "running" THEN rq
    ELSE BodyOver(LoopBody(rq, Head(events)), Tail(events))

\* the request run alone from its beginning to its end: the lines parsed one
\* after the other with a filter of its own, at the given addresses
RECURSIVE RunAlone(_, _, _, _)
RunAlone(rq, todo, addrs, f) ==
    IF rq.orch_pc # "running" THEN rq
    ELSE IF todo = <<>>
         THEN LET last == BodyOver(rq, AfterStream(<<>>))
              IN  IF last.orch_pc = "running" THEN Finalise(last) ELSE last
         ELSE LET res == LineEvents(Head(todo), f, Head(addrs))
              IN  RunAlone(BodyOver(rq, res.events), Tail(todo), Tail(addrs), res.f)

\* C21: a request that has ended, however its steps were interleaved with
\* those of the other requests, has emitted the frames and created the usage
\* and violation tasks that it emits and creates when it runs alone on the
\* same response.
C21_ConcurrentAsAlone ==
    \A i \in DOMAIN requests :
        requests[i].orch_pc # "running" =>
            Outcome(requests[i]) =
                Outcome(RunAlone(NewRequest(requests[i].response), requests[i].response,
                                 requests[i].addrs, NewFilter))

\* C21 witness: two requests whose responses carry the same tool-call block;
\* the first began after the second, when the second had emitted the tool use
\* of the block, and has ended while the second is still reading: it emitted
\* its own tool use, the metadata and the end, and dispatched its metrics
C21_Witness ==
    /\ DOMAIN requests = ReqIds
    /\ requests[1].response = <<"n", "m">>
    /\ requests[2].response = <<"n", "u">>
    /\ requests[1].filter_ref = 2 /\ requests[2].filter_ref = 1
    /\ requests[1].orch_pc = "finished"
    /\ Len(requests[1].sse) = 3
    /\ Len(requests[1].usage_tasks) = 1
    /\ requests[2].orch_pc = "running" /\ requests[2].pc = "open"
    /\ Len(requests[2].sse) = 1

\* ------------------------------------------------------------------------
\* C22, C23 (checked under SpecAuth)
\* ------------------------------------------------------------------------
\* the user of the request is in the Admin group
InAdminGroup == http_request.groups = "Admin"

\* C22 (as claimed): a request to an admin route has reached the handler
\* only if dev mode is on or the user's groups contain Admin, on every path
\* through dispatch.
C22_AdminRoutesNeedAdmin ==
    (IsAdminRoute(http_request.path) /\ handler_calls # <<>>)
        => (http_request.config = "dev" \/ InAdminGroup)

\* the session cookie holds an access token that validate_token accepts
SessionTokenValid ==
    /\ ~CookieLoads(http_request.cookie).raise
    /\ CookieLoads(http_request.cookie).value.t = "dict"
    /\ SessionGet(CookieLoads(http_request.cookie).value, "access_token", "") = "good"

\* the session's token was reported expired, one refresh succeeded and the
\* new token validated
RefreshedTokenValid ==
    /\ ~CookieLoads(http_request.cookie).raise
    /\ CookieLoads(http_request.cookie).value.t = "dict"
    /\ SessionGet(CookieLoads(http_request.cookie).value, "access_token", "") = "old"
    /\ refresh_calls = 1
    /\ http_request.refreshed = "good"

\* the response of a failed authentication: 401 JSON on an API route, a
\* redirect to the login page on a page route, the session cookie deleted
IsAuthFailure(resp) ==
    /\ SESSION_COOKIE_NAME \in resp.deleted
    /\ IF IsApiRoute(http_request.path)
       THEN resp.status = 401
       ELSE resp.status = 302 /\ resp.location = "/auth/login"

\* C23 (as claimed): with dev mode off, a request to a route that is not
\* public has reached the handler only if its access token validated or was
\* expired, refreshed once and validated then; in every other case the
\* handler was not called and the response is that of a failed
\* authentication; and at most one refresh was attempted.
C23_HandlerOnlyBehindValidToken ==
    (~IsPublicRoute(http_request.path) /\ http_request.config = "prod")
        => /\ handler_calls # <<>> => (SessionTokenValid \/ RefreshedTokenValid)
           /\ (mw_pc = "done" /\ ~SessionTokenValid /\ ~RefreshedTokenValid)
                  => (handler_calls = <<>> /\ IsAuthFailure(response))
           /\ refresh_calls <= 1

\* ------------------------------------------------------------------------
\* C24 (checked under SpecSession)
\* ------------------------------------------------------------------------
\* the cookie holds a valid session: an object with the three keys
ValidSessionCookie ==
    /\ chat_cookie # ""
    /\ ~ChatCookieLoads(chat_cookie).raise
    /\ ChatCookieLoads(chat_cookie).value.t = "dict"
    /\ {"session_id", "created_at", "last_activity"}
           \subseteq DOMAIN ChatCookieLoads(chat_cookie).value.v

\* C24 (as claimed): no call raises; get_session returns a session when the
\* cookie holds a valid one and None otherwise; get_or_create_session
\* returns a session and sets the cookie exactly once, to the session it
\* returns, which has the session_id and created_at of the valid session of
\* the cookie when there is one.
C24_GetSessionNeverRaises ==
    \A k \in 1..Len(session_calls) :
        \A call \in {session_calls[k]} :
            /\ call.raise = ""
            /\ call.op = "get_session" => (call.session.none <=> ~ValidSessionCookie)
            /\ call.op = "get_or_create_session" =>
                   /\ ~call.session.none
                   /\ call.set = <<call.session>>
                   /\ ValidSessionCookie =>
                          /\ call.session.session_id =
                                 ChatCookieLoads(chat_cookie).value.v.session_id
                          /\ call.session.created_at =
                                 ChatCookieLoads(chat_cookie).value.v.created_at

\* ------------------------------------------------------------------------
\* C25 (checked under SpecAgent)
\* ------------------------------------------------------------------------
IsGuardrailItem(item) == item.type = "guardrail"
IsOtherItem(item) == item.type \notin {"guardrail", "error"}
IsOriginal(item) == item.type = "event"

\* what invoke yields for the given events of the agent when no hook is there
RECURSIVE YieldsOver(_, _)
YieldsOver(items, seen) ==
    IF items = <<>> THEN <<>>
    ELSE LET y == InvokeYields(Head(items).of, seen)
         IN  y.out \o YieldsOver(Tail(items), y.seen)

\* C25 (as claimed): when the invocation has ended, in whichever way, the
\* violations yielded are the violations recorded, each once and in their
\* order; no event of the agent comes behind a violation; and the other
\* items yielded are what invoke yields for the agent's events alone.
C25_ViolationsYieldedOnce ==
    agent_pc \in {"done", "failed"} =>
        /\ SelectSeq(agent_out, IsGuardrailItem) = recorded
        /\ \A i, j \in 1..Len(agent_out) :
               (IsGuardrailItem(agent_out[i]) /\ IsOtherItem(agent_out[j])) => j < i
        /\ SelectSeq(agent_out, IsOtherItem) =
               YieldsOver(SelectSeq(agent_out, IsOriginal), {})

====
